---- MODULE Spec2Model ----
(***************************************************************************)
(* kyndall-idea-engine: the tracked-video store, the analytics cycle       *)
(* (platform sync, milestone recording, milestone analysis), the idea      *)
(* store with the idea-processing pass, and the two run flags.             *)
(*                                                                         *)
(* Time is counted in hours.  A store is a sequence of pages; a page's id  *)
(* is its position in the sequence (pages are never deleted).              *)
(***************************************************************************)
EXTENDS Integers, Sequences, FiniteSets, TLC

VARIABLES
  now,            \* wall clock, in hours
  published,      \* YouTube catalogue: native video id -> publishedAt or NULL
  videos,         \* the Analytics database: sequence of tracked-video pages
  apc,            \* where the analytics cycle stands
  trackedVideos,  \* the list the running step read with getAllTrackedVideos
  newVideos,      \* syncYouTube: catalogue items still to create
  allStats,       \* syncYouTube: the statistics the platform returned
  idx,            \* loop position in trackedVideos / allStats
  tier,           \* runMilestoneAnalysis: position in the four if-statements
  ideas,          \* the Ideas database: sequence of idea pages
  attempted,      \* page id -> milestones saveMilestoneStats was called for in this pass
  saved,          \* page id -> milestones saveMilestoneStats wrote in this pass
  statWrites,     \* page id -> milestone -> number of milestone writes so far
  analysisRuns,   \* page id -> milestone -> number of analyses produced so far
  faults,         \* number of calls to an outside service that failed so far
  userArchived,   \* the page ids the user has archived
  ipc,            \* where the idea-processing pass stands
  queue,          \* processNewIdeas: the ideas read and not yet processed
  queryOk,        \* whether the last getIdeasNeedingAnalysis query succeeded
  help,           \* processHelpRequest: its local variables
  helpResult,     \* what the last processHelpRequest returned, and for which idea
  analyzedOk,     \* ideas analyzed and written since the user last edited them
  isRunning,      \* stats.isRunning
  analyticsRunning, \* stats.analyticsRunning
  inFlight,       \* workflow -> number of passes past their guard and not returned
  skipped,        \* workflow -> number of calls that returned at the guard
  mainPc,         \* where main stands
  tkCaller,       \* the exported function that called tiktokRequest
  tkPc,           \* where the running call of tiktokRequest stands
  isRetry,        \* tiktokRequest: its isRetry argument
  credentials,    \* the tiktok-credentials document in Sanity
  tkLog,        \* what the running call of tiktokRequest has done so far
  tkResult,       \* how the last call of tiktokRequest ended
  call,           \* a parser or a formula applied to a drawn input
  modelDown,      \* whether every call to the language model fails
  sync            \* syncAllPlatforms: the platform in hand and the results so far

analyticsVars ==
  <<now, published, videos, apc, trackedVideos, newVideos, allStats, idx, tier,
    attempted, saved, statWrites, analysisRuns, faults>>

ideaVars == <<ipc, queue, queryOk, help, helpResult, analyzedOk>>

guardVars == <<isRunning, analyticsRunning, inFlight, skipped, mainPc>>

tiktokVars == <<tkCaller, tkPc, isRetry, credentials, tkLog, tkResult>>

\* the variables the analytics cycle, the idea pass and the run flags leave alone
extraVars == <<tiktokVars, call, modelDown, sync>>

vars == <<analyticsVars, ideas, userArchived, ideaVars, guardVars, extraVars>>

\* the absent value of a number, a date or a reference
NULL == 0 - 1

(* ----------------------------- bounds --------------------------------- *)

\* native video ids on the platform are 1..MaxVideos
MaxVideos == 1
\* the Analytics database holds at most MaxPages pages
MaxPages == 2
\* the counters of writes and analyses stop counting at MaxCount
MaxCount == 2
\* the Ideas database holds at most MaxIdeaPages pages
MaxIdeaPages == 7
\* at most MaxFaults calls to Notion, a platform or the model fail in a run
MaxFaults == 1

(* ------------------------ program constants --------------------------- *)

HoursPerDay == 24

Milestones == {1, 7, 30, 90}

\* the days since posting the milestone rules are exercised on
MilestoneDays == {0, 1, 6, 7, 29, 30, 89, 90, 91}

\* the instants the clock of the analytics cycle takes
Clock == {d * HoursPerDay : d \in {0, 1, 7}}

NativeIds == 1..MaxVideos
PageIds == 1..MaxPages

\* view counts a page can hold
StatValues == {0, 10}

\* the view count the platform reports for a video at time t: views only grow
ViewsAt(t) == t \div HoursPerDay

\* the absent value of a choice or a text
NONE == "none"

\* what PERFORMANCE_SCORE: (\d+) parses to: nothing, or any number of digits
PerfScores == {NULL, 0, 85, 150}

MilestoneSeq == <<1, 7, 30, 90>>

Bump(c) == IF c < MaxCount THEN c + 1 ELSE c

\* a call that failed counts one
Fails(ok) == IF ok THEN 0 ELSE 1

\* if (stats.isRunning) return, if (stats.analyticsRunning) return: the call
\* returns at the guard
NeverSkips(flag) == FALSE

Skips(flag) == flag

(* -------------------------- the video store --------------------------- *)

\* parseAnalyticsPage: the fields of a tracked-video page the passes read
d1Recorded(video) == video.recorded[1]
d7Recorded(video) == video.recorded[7]
d30Recorded(video) == video.recorded[30]
d90Recorded(video) == video.recorded[90]

\* a page of the Analytics database as createVideoEntry builds it: the other
\* properties are empty
EmptyPage(id, platform, videoId, postedDate) ==
  [id |-> id, platform |-> platform, videoId |-> videoId,
   postedDate |-> postedDate, status |-> "New",
   viewsCurrent |-> NULL, lastSynced |-> NULL,
   recorded |-> [n \in Milestones |-> NULL],
   views |-> [n \in Milestones |-> NULL],
   analysis |-> [n \in Milestones |-> ""],
   performanceScore |-> NULL,
   createFollowUp |-> FALSE, followUpCreated |-> FALSE,
   linkedIdeaId |-> NULL]

\* notion.pages.update: a partial update of the page with that id
UpdatePage(store, pageId, page) ==
  [store EXCEPT ![pageId] = page]

\* the stable insertion of a page into a list sorted by Posted Date, descending
RECURSIVE InsertByPostedDate(_, _)
InsertByPostedDate(list, page) ==
  IF list = <<>> THEN <<page>>
  ELSE IF page.postedDate > Head(list).postedDate
       THEN <<page>> \o list
       ELSE <<Head(list)>> \o InsertByPostedDate(Tail(list), page)

RECURSIVE SortByPostedDate(_)
SortByPostedDate(list) ==
  IF list = <<>> THEN <<>>
  ELSE InsertByPostedDate(SortByPostedDate(Tail(list)), Head(list))

NotArchived(page) == page.status # "Archived"

\* getAllTrackedVideos: every page whose Status is not Archived, newest post
\* first; a failed query is logged and gives the empty list
getAllTrackedVideos(store, ok) ==
  IF ok THEN SortByPostedDate(SelectSeq(store, NotArchived)) ELSE <<>>

\* saveMilestoneStats: the frozen fields, the recorded timestamp and the status
StatusOfMilestone(milestone) ==
  CASE milestone = 1 -> "D1 Complete"
    [] milestone = 7 -> "D7 Complete"
    [] milestone = 30 -> "D30 Complete"
    [] milestone = 90 -> "D90 Complete"

saveMilestoneStats(store, pageId, milestone, stats) ==
  UpdatePage(store, pageId,
    [store[pageId] EXCEPT !.views[milestone] = stats.views,
                          !.recorded[milestone] = now,
                          !.status = StatusOfMilestone(milestone)])

(* ----------------------------- the idea store ------------------------- *)

\* a page of the Ideas database with only its title (and AI Review) set; a
\* title is the sequence of its words
EmptyIdea(title) ==
  [title |-> title, status |-> NONE, viralityScore |-> NULL,
   needsReanalysis |-> FALSE, lastAnalyzed |-> NULL, archived |-> FALSE,
   actualPerformance |-> NULL, postedUrl |-> NONE]

(* ------------------------------ syncYouTube --------------------------- *)

\* getRecentVideos: the channel's uploads; a failed fetch gives the empty list
CatalogueItem(v) == [videoId |-> v, publishedAt |-> published[v]]

IsPublished(item) == item.publishedAt # NULL

getRecentVideos(ok) ==
  IF ok THEN SelectSeq([v \in NativeIds |-> CatalogueItem(v)], IsPublished)
  ELSE <<>>

\* findVideoByPlatformId: the first page with that Video ID and Platform,
\* whatever its status; a failed query is logged and gives null
MatchingPages(store, videoId, platform) ==
  {i \in 1..Len(store) :
     store[i].videoId = videoId /\ store[i].platform = platform}

FirstOf(S) == CHOOSE i \in S : \A j \in S : i <= j

findVideoByPlatformId(store, videoId, platform, ok) ==
  IF ok /\ MatchingPages(store, videoId, platform) # {}
  THEN FirstOf(MatchingPages(store, videoId, platform))
  ELSE NULL

\* createVideoEntry: the id of the existing page, or of the page created, or
\* null when notion.pages.create fails
createVideoEntry(store, video, lookupOk, createOk) ==
  LET existing == findVideoByPlatformId(store, video.videoId, video.platform, lookupOk)
  IN IF existing # NULL
     THEN [store |-> store, id |-> existing]
     ELSE IF createOk
          THEN [store |-> Append(store, EmptyPage(Len(store) + 1, video.platform,
                                                   video.videoId, video.publishedAt)),
                id |-> Len(store) + 1]
          ELSE [store |-> store, id |-> NULL]

\* updateCurrentStats: the current snapshot, Last Synced and the status
updateCurrentStats(store, pageId, stats) ==
  UpdatePage(store, pageId,
    [store[pageId] EXCEPT !.viewsCurrent = stats.views,
                          !.lastSynced = now,
                          !.status = "Tracking"])

IsYouTube(page) == page.platform = "YouTube"

\* syncYouTube up to the list of new videos
syncYouTubeStart ==
  /\ apc = "sync"
  /\ \E fetchOk \in BOOLEAN, listOk \in BOOLEAN :
       LET recentVideos == getRecentVideos(fetchOk)
           tracked == getAllTrackedVideos(videos, listOk)
           youtubeTracked == SelectSeq(tracked, IsYouTube)
           trackedIds == {youtubeTracked[i].videoId : i \in 1..Len(youtubeTracked)}
           IsNew(item) == item.videoId \notin trackedIds
       IN /\ trackedVideos' = tracked
          /\ newVideos' = SelectSeq(recentVideos, IsNew)
          /\ faults' = faults + Fails(fetchOk) + Fails(listOk)
  /\ faults' <= MaxFaults
  /\ apc' = "create"
  /\ UNCHANGED <<now, published, videos, allStats, idx, tier,
                 attempted, saved, statWrites, analysisRuns, ideas, userArchived>>
  /\ UNCHANGED ideaVars
  /\ UNCHANGED guardVars
  /\ UNCHANGED extraVars

\* one turn of the loop that adds the new videos
syncYouTubeCreate ==
  /\ apc = "create"
  /\ newVideos # <<>>
  /\ \E lookupOk \in BOOLEAN, createOk \in BOOLEAN :
       /\ createOk => Len(videos) < MaxPages
       /\ faults' = faults + Fails(lookupOk)
                      + (IF Len(videos) < MaxPages THEN Fails(createOk) ELSE 0)
       /\ LET video == [platform |-> "YouTube",
                        videoId |-> Head(newVideos).videoId,
                        publishedAt |-> Head(newVideos).publishedAt]
          IN videos' = createVideoEntry(videos, video, lookupOk, createOk).store
  /\ faults' <= MaxFaults
  /\ newVideos' = Tail(newVideos)
  /\ UNCHANGED <<now, published, apc, trackedVideos, allStats, idx, tier,
                 attempted, saved, statWrites, analysisRuns, ideas, userArchived>>
  /\ UNCHANGED ideaVars
  /\ UNCHANGED guardVars
  /\ UNCHANGED extraVars

\* getMultipleVideoStats: the platform answers for some of the ids asked
syncYouTubeStats ==
  /\ apc = "create"
  /\ newVideos = <<>>
  /\ LET youtubeTracked == SelectSeq(trackedVideos, IsYouTube)
         videoIds == {youtubeTracked[i].videoId : i \in 1..Len(youtubeTracked)}
     IN /\ trackedVideos' = youtubeTracked
        /\ \E answered \in SUBSET videoIds :
             LET Answered(st) == st.videoId \in answered
             IN allStats' = SelectSeq([v \in NativeIds |->
                                         [videoId |-> v, views |-> ViewsAt(now)]],
                                      Answered)
                /\ faults' = faults + Fails(answered = videoIds)
  /\ faults' <= MaxFaults
  /\ idx' = 1
  /\ apc' = "update"
  /\ UNCHANGED <<now, published, videos, newVideos, tier,
                 attempted, saved, statWrites, analysisRuns, ideas, userArchived>>
  /\ UNCHANGED ideaVars
  /\ UNCHANGED guardVars
  /\ UNCHANGED extraVars

\* one turn of the loop over allStats: the page updated is the first tracked
\* page with that video id
syncYouTubeUpdate ==
  /\ apc = "update"
  /\ idx <= Len(allStats)
  /\ LET stats == allStats[idx]
         found == {i \in 1..Len(trackedVideos) :
                     trackedVideos[i].videoId = stats.videoId}
     IN IF found = {} THEN UNCHANGED <<videos, faults>>
        ELSE \E ok \in BOOLEAN :
               /\ videos' = IF ok
                            THEN updateCurrentStats(videos,
                                   trackedVideos[FirstOf(found)].id, stats)
                            ELSE videos
               /\ faults' = faults + Fails(ok)
  /\ faults' <= MaxFaults
  /\ idx' = idx + 1
  /\ UNCHANGED <<now, published, apc, trackedVideos, newVideos, allStats, tier,
                 attempted, saved, statWrites, analysisRuns, ideas, userArchived>>
  /\ UNCHANGED ideaVars
  /\ UNCHANGED guardVars
  /\ UNCHANGED extraVars

syncYouTubeEnd ==
  /\ apc = "update"
  /\ idx > Len(allStats)
  /\ apc' = "milestones"
  /\ trackedVideos' = <<>>
  /\ allStats' = <<>>
  /\ idx' = 1
  /\ UNCHANGED <<now, published, videos, newVideos, tier,
                 attempted, saved, statWrites, analysisRuns, ideas, faults, userArchived>>
  /\ UNCHANGED ideaVars
  /\ UNCHANGED guardVars
  /\ UNCHANGED extraVars

(* --------------------------- checkMilestones -------------------------- *)

daysSincePost(video) == (now - video.postedDate) \div HoursPerDay

DueD1AnyTime(video, days) == days >= 1

DueD1(video, days) == days >= 1 /\ d1Recorded(video) = NULL

DueD7NoPrev(video, days) == days >= 7 /\ d7Recorded(video) = NULL

DueD7(video, days) ==
  days >= 7 /\ d7Recorded(video) = NULL /\ d1Recorded(video) # NULL

DueD30NoPrev(video, days) == days >= 30 /\ d30Recorded(video) = NULL

DueD30(video, days) ==
  days >= 30 /\ d30Recorded(video) = NULL /\ d7Recorded(video) # NULL

DueD90AfterAnalysis(video, days) ==
  /\ days >= 90 /\ d90Recorded(video) = NULL /\ d30Recorded(video) # NULL
  /\ video.analysis[30] # ""

DueD90(video, days) ==
  days >= 90 /\ d90Recorded(video) = NULL /\ d30Recorded(video) # NULL

DueSeeingOwnWrites(video) ==
  IF video.postedDate = NULL THEN {}
  ELSE {n \in Milestones :
          /\ daysSincePost(video) >= n
          /\ video.recorded[n] = NULL
          /\ \A m \in Milestones :
                m < n => (video.recorded[m] # NULL \/ daysSincePost(video) >= m)}

\* the milestones whose if-statement calls saveMilestoneStats for this video
DueMilestones(video) ==
  IF video.postedDate = NULL THEN {}
  ELSE LET days == daysSincePost(video)
       IN (IF DueD1(video, days) THEN {1} ELSE {})
          \cup (IF DueD7(video, days) THEN {7} ELSE {})
          \cup (IF DueD30(video, days) THEN {30} ELSE {})
          \cup (IF DueD90(video, days) THEN {90} ELSE {})

\* one if-statement of the loop body: the call copies the current snapshot the
\* pass read; okSet holds the milestones whose page update succeeds
RecordStep(store, video, milestone, due, okSet) ==
  IF milestone \in due /\ milestone \in okSet
  THEN saveMilestoneStats(store, video.id, milestone, [views |-> video.viewsCurrent])
  ELSE store

RecordAll(store, video, due, okSet) ==
  LET s1 == RecordStep(store, video, 1, due, okSet)
      s7 == RecordStep(s1, video, 7, due, okSet)
      s30 == RecordStep(s7, video, 30, due, okSet)
  IN RecordStep(s30, video, 90, due, okSet)

CountWrites(writes, pageId, done) ==
  [writes EXCEPT ![pageId] =
     [n \in Milestones |-> IF n \in done THEN Bump(@[n]) ELSE @[n]]]

\* checkMilestones reads the tracked list and the time once
checkMilestonesStart ==
  /\ apc = "milestones"
  /\ \E ok \in BOOLEAN :
       /\ trackedVideos' = getAllTrackedVideos(videos, ok)
       /\ faults' = faults + Fails(ok)
  /\ faults' <= MaxFaults
  /\ idx' = 1
  /\ attempted' = [p \in PageIds |-> {}]
  /\ saved' = [p \in PageIds |-> {}]
  /\ apc' = "record"
  /\ UNCHANGED <<now, published, videos, newVideos, allStats, tier,
                 statWrites, analysisRuns, ideas, userArchived>>
  /\ UNCHANGED ideaVars
  /\ UNCHANGED guardVars
  /\ UNCHANGED extraVars

\* one turn of the loop over the tracked list
checkMilestonesVideo ==
  /\ apc = "record"
  /\ idx <= Len(trackedVideos)
  /\ LET video == trackedVideos[idx]
         due == DueMilestones(video)
     IN \E okSet \in SUBSET due :
          /\ videos' = RecordAll(videos, video, due, okSet)
          /\ attempted' = [attempted EXCEPT ![video.id] = due]
          /\ saved' = [saved EXCEPT ![video.id] = okSet]
          /\ statWrites' = CountWrites(statWrites, video.id, okSet)
          /\ faults' = faults + Cardinality(due \ okSet)
  /\ faults' <= MaxFaults
  /\ idx' = idx + 1
  /\ UNCHANGED <<now, published, apc, trackedVideos, newVideos, allStats, tier,
                 analysisRuns, ideas, userArchived>>
  /\ UNCHANGED ideaVars
  /\ UNCHANGED guardVars
  /\ UNCHANGED extraVars

checkMilestonesEnd ==
  /\ apc = "record"
  /\ idx > Len(trackedVideos)
  /\ apc' = "analysis"
  /\ trackedVideos' = <<>>
  /\ idx' = 1
  /\ attempted' = [p \in PageIds |-> {}]
  /\ saved' = [p \in PageIds |-> {}]
  /\ UNCHANGED <<now, published, videos, newVideos, allStats, tier,
                 statWrites, analysisRuns, ideas, faults, userArchived>>
  /\ UNCHANGED ideaVars
  /\ UNCHANGED guardVars
  /\ UNCHANGED extraVars

(* --------------------- checkMilestones: the due rule ------------------ *)

\* the tier before milestone n in D1, D7, D30, D90
PreviousTier(n) ==
  CASE n = 7 -> 1
    [] n = 30 -> 7
    [] n = 90 -> 30

\* the records the running checkMilestones pass has been through, as it read them
Processed == {trackedVideos[i] : i \in 1..(idx - 1)}

DueBySpec(video, n) ==
  /\ daysSincePost(video) >= n
  /\ video.recorded[n] = NULL
  /\ (n = 1 \/ video.recorded[PreviousTier(n)] # NULL)

\* C1: for every tracked video with a posted date, whatever its age and its
\* four recorded flags at the start of the pass, checkMilestones calls
\* saveMilestoneStats for milestone n exactly when daysSincePost >= n, n is not
\* yet recorded, and n = 1 or the tier just before n is recorded.
C1_DueRule ==
  apc = "record" =>
    \A video \in Processed :
      video.postedDate # NULL =>
        \A n \in Milestones :
          n \in attempted[video.id] <=> DueBySpec(video, n)

\* a video first seen after 90 days with D1 and D7 recorded: D30 is attempted,
\* D90 is not
C1_Witness ==
  /\ apc = "record"
  /\ \E video \in Processed :
       /\ video.postedDate # NULL
       /\ daysSincePost(video) >= 90
       /\ video.recorded[7] # NULL
       /\ 30 \in attempted[video.id]
       /\ 90 \notin attempted[video.id]

\* C2 (as stated): checkMilestones never records milestone n unless n = 1 or
\* all the milestones before n are recorded, for each of the 16 combinations
\* of recorded milestones.  A milestone recorded earlier in the same pass
\* counts as recorded.
C2_AllEarlierRecorded ==
  apc = "record" =>
    \A video \in Processed :
      \A n \in saved[video.id] :
        n = 1 \/ \A m \in Milestones : m < n => videos[video.id].recorded[m] # NULL

PrefixClosed(video) ==
  \A n \in Milestones \ {1} :
    video.recorded[n] # NULL => video.recorded[PreviousTier(n)] # NULL

\* C2 (amended): checkMilestones never records milestone n unless n = 1 or the
\* tier just before n was recorded when the pass read the record; when the
\* recorded milestones of the record are a prefix of D1, D7, D30, D90, all the
\* milestones before n are then recorded.
C2_PreviousTierRecorded ==
  apc = "record" =>
    \A video \in Processed :
      \A n \in saved[video.id] :
        /\ n = 1 \/ video.recorded[PreviousTier(n)] # NULL
        /\ PrefixClosed(video) =>
             (\A m \in Milestones : m < n => video.recorded[m] # NULL)

\* D30 is recorded for a video whose D1 and D7 were recorded before the pass
C2_Witness ==
  /\ apc = "record"
  /\ \E video \in Processed :
       /\ 30 \in saved[video.id]
       /\ video.recorded[1] # NULL
       /\ video.recorded[7] # NULL
       /\ videos[video.id].recorded[30] = now


(* ------------------------- runMilestoneAnalysis ----------------------- *)

\* analyzeD1 .. analyzeD90: null when the model call fails; otherwise the parsed
\* reply, whose summary is empty when the reply carries none of the labels
AnalysisResults(milestone) ==
  {[produced |-> FALSE, summary |-> "", suggestedFollowUp |-> FALSE,
    performanceScore |-> NULL]}
  \cup {[produced |-> TRUE, summary |-> s, suggestedFollowUp |-> f,
         performanceScore |-> ps] :
          s \in {"", "text"},
          f \in IF milestone = 7 THEN BOOLEAN ELSE {FALSE},
          ps \in IF milestone = 30 THEN PerfScores ELSE {NULL}}

\* a JavaScript number used as a condition
Truthy(number) == number # NULL /\ number # 0

\* saveMilestoneAnalysis: Analysis Dn, and for D30 and D90 the extra fields
saveMilestoneAnalysis(store, pageId, milestone, analysis) ==
  UpdatePage(store, pageId,
    [store[pageId] EXCEPT
       !.analysis[milestone] = analysis.summary,
       !.performanceScore =
          IF milestone \in {30, 90} /\ Truthy(analysis.performanceScore)
          THEN analysis.performanceScore ELSE @])

\* createFollowUpIdea: a new page of the Ideas database
createFollowUpIdea(store) == Append(store, EmptyIdea(<<"follow", "up">>))

\* markFollowUpCreated: the Follow-up Created checkbox
markFollowUpCreated(store, pageId) ==
  UpdatePage(store, pageId, [store[pageId] EXCEPT !.followUpCreated = TRUE])

\* updateIdeaViralityFromPerformance: Actual Performance, and Posted URL := null
updateIdeaViralityFromPerformance(store, ideaPageId, performanceScore) ==
  UpdatePage(store, ideaPageId,
    [store[ideaPageId] EXCEPT !.actualPerformance = performanceScore,
                              !.postedUrl = NONE])

\* the if-statement of one milestone: recorded but not analyzed
NeedsAnalysis(video, milestone) ==
  video.recorded[milestone] # NULL /\ video.analysis[milestone] = ""

runMilestoneAnalysisStart ==
  /\ apc = "analysis"
  /\ \E ok \in BOOLEAN :
       /\ trackedVideos' = getAllTrackedVideos(videos, ok)
       /\ faults' = faults + Fails(ok)
  /\ faults' <= MaxFaults
  /\ idx' = 1
  /\ tier' = 1
  /\ apc' = "analyze"
  /\ UNCHANGED <<now, published, videos, newVideos, allStats,
                 attempted, saved, statWrites, analysisRuns, ideas, userArchived>>
  /\ UNCHANGED ideaVars
  /\ UNCHANGED guardVars
  /\ UNCHANGED extraVars

\* one if-statement of the loop body, for the video at idx
runMilestoneAnalysisStep ==
  /\ apc = "analyze"
  /\ idx <= Len(trackedVideos)
  /\ LET video == trackedVideos[idx]
         milestone == MilestoneSeq[tier]
     IN IF NeedsAnalysis(video, milestone)
        THEN \E analysis \in AnalysisResults(milestone), saveOk \in BOOLEAN,
                createOk \in BOOLEAN, markOk \in BOOLEAN, updateOk \in BOOLEAN :
               LET followUp == /\ analysis.produced
                               /\ milestone = 7
                               /\ analysis.suggestedFollowUp
                               /\ video.createFollowUp
                   created == followUp /\ createOk
                   feedback == /\ analysis.produced
                               /\ milestone = 30
                               /\ video.linkedIdeaId # NULL
                               /\ Truthy(analysis.performanceScore)
                   v1 == IF analysis.produced /\ saveOk
                         THEN saveMilestoneAnalysis(videos, video.id, milestone, analysis)
                         ELSE videos
                   v2 == IF created /\ markOk
                         THEN markFollowUpCreated(v1, video.id)
                         ELSE v1
                   i1 == IF created THEN createFollowUpIdea(ideas) ELSE ideas
                   i2 == IF feedback /\ updateOk
                         THEN updateIdeaViralityFromPerformance(i1,
                                video.linkedIdeaId, analysis.performanceScore)
                         ELSE i1
                   saveCalled == analysis.produced
                   markCalled == followUp /\ createOk
               IN /\ created => Len(ideas) < MaxIdeaPages
                  /\ modelDown => ~analysis.produced
                  /\ ~saveCalled => saveOk
                  /\ ~followUp => createOk
                  /\ ~markCalled => markOk
                  /\ ~feedback => updateOk
                  /\ faults' = faults + Fails(analysis.produced \/ modelDown)
                                 + Fails(saveOk)
                                 + (IF Len(ideas) < MaxIdeaPages
                                    THEN Fails(createOk) ELSE 0)
                                 + Fails(markOk) + Fails(updateOk)
                  /\ videos' = v2
                  /\ ideas' = i2
                  /\ analysisRuns' =
                       IF analysis.produced
                       THEN [analysisRuns EXCEPT ![video.id][milestone] = Bump(@)]
                       ELSE analysisRuns
        ELSE UNCHANGED <<videos, ideas, analysisRuns, faults>>
  /\ faults' <= MaxFaults
  /\ IF tier < Len(MilestoneSeq)
     THEN tier' = tier + 1 /\ idx' = idx
     ELSE tier' = 1 /\ idx' = idx + 1
  /\ UNCHANGED <<now, published, apc, trackedVideos, newVideos, allStats,
                 attempted, saved, statWrites, userArchived>>
  /\ UNCHANGED ideaVars
  /\ UNCHANGED guardVars
  /\ UNCHANGED extraVars

\* the cycle returns; runAnalytics clears its flag
runMilestoneAnalysisEnd ==
  /\ apc = "analyze"
  /\ idx > Len(trackedVideos)
  /\ apc' = "idle"
  /\ trackedVideos' = <<>>
  /\ idx' = 1
  /\ analyticsRunning' = FALSE
  /\ inFlight' = [inFlight EXCEPT !.analytics = @ - 1]
  /\ UNCHANGED <<now, published, videos, newVideos, allStats, tier,
                 attempted, saved, statWrites, analysisRuns, ideas, faults, userArchived>>
  /\ UNCHANGED ideaVars
  /\ UNCHANGED <<isRunning, skipped, mainPc>>
  /\ UNCHANGED extraVars

(* ---------------------- the idea-processing pass ---------------------- *)

\* what the idea-processing pass leaves alone
analyticsState ==
  <<published, videos, apc, trackedVideos, newVideos, allStats, idx, tier,
    attempted, saved, statWrites, analysisRuns, userArchived>>

\* String.toLowerCase on the words that occur
Lower(word) ==
  CASE word = "Help" -> "help"
    [] word = "HELP" -> "help"
    [] OTHER -> word

\* isHelpRequest: the trimmed, lower-cased title starts with "help " (the word
\* help and at least one more word)
isHelpRequest(idea) ==
  Len(idea.title) >= 2 /\ Lower(idea.title[1]) = "help"

\* the filter of the databases.query: (Virality Score is empty or Needs
\* Reanalysis is checked) and Status is not Posted; Notion leaves out the
\* pages in the trash
MatchesFilter(page) ==
  /\ ~page.archived
  /\ (page.viralityScore = NULL \/ page.needsReanalysis)
  /\ page.status # "Posted"

MatchesFilterAnyStatus(page) ==
  /\ ~page.archived
  /\ (page.viralityScore = NULL \/ page.needsReanalysis)

\* the pages of a store, newest first (sorts: created_time descending), each
\* with its id
NewestFirst(store) ==
  [j \in 1..Len(store) |->
     [id |-> Len(store) + 1 - j, page |-> store[Len(store) + 1 - j]]]

\* parseNotionPage: the fields of an idea the pass reads
parseNotionPage(entry) ==
  [id |-> entry.id, title |-> entry.page.title]

\* getIdeasNeedingAnalysis: the pages matching the filter, parsed, without
\* those whose title is empty; a failed query is logged and gives []
getIdeasIgnoringStatus(store, ok) ==
  IF ok
  THEN LET Matching(entry) == MatchesFilterAnyStatus(entry.page)
           HasTitle(idea) == idea.title # <<>>
           results == SelectSeq(NewestFirst(store), Matching)
       IN SelectSeq([j \in 1..Len(results) |-> parseNotionPage(results[j])], HasTitle)
  ELSE <<>>

getIdeasNeedingAnalysis(store, ok) ==
  IF ok
  THEN LET Matching(entry) == MatchesFilter(entry.page)
           HasTitle(idea) == idea.title # <<>>
           results == SelectSeq(NewestFirst(store), Matching)
       IN SelectSeq([j \in 1..Len(results) |-> parseNotionPage(results[j])], HasTitle)
  ELSE <<>>

\* the longest text after the label VIRALITY_SCORE:
MaxScoreLen == 3

Digits == <<"0", "1", "5", "8">>

DigitChars == {Digits[i] : i \in 1..Len(Digits)}

\* the characters of the text after the label
ScoreChars == DigitChars \cup {"-", "a", "b", "c", " "}

ScoreTexts == UNION {[1..n -> ScoreChars] : n \in 0..MaxScoreLen}

DigitValue(c) ==
  CASE c = "0" -> 0
    [] c = "1" -> 1
    [] c = "5" -> 5
    [] c = "8" -> 8

\* \s* : the text without its leading white space
RECURSIVE SkipSpace(_)
SkipSpace(text) ==
  IF text # <<>> /\ Head(text) = " " THEN SkipSpace(Tail(text)) ELSE text

\* (\d+) : the longest run of digits at the start of the text
RECURSIVE DigitRun(_)
DigitRun(text) ==
  IF text # <<>> /\ Head(text) \in DigitChars
  THEN <<Head(text)>> \o DigitRun(Tail(text))
  ELSE <<>>

\* parseInt of a run of digits
RECURSIVE parseInt(_)
parseInt(digits) ==
  IF digits = <<>> THEN 0
  ELSE 10 * parseInt(SubSeq(digits, 1, Len(digits) - 1))
         + DigitValue(digits[Len(digits)])

\* text.match(/VIRALITY_SCORE:\s*(\d+)/i) on the text after the label: the
\* number matched, or no match
matchScore(text) ==
  LET run == DigitRun(SkipSpace(text))
  IN IF run = <<>> THEN NULL ELSE parseInt(run)

\* the digits after VIRALITY_SCORE: in a reply to analyzeIdea, or no match
ScoreLabels == {NULL, 0, 150}

Min(a, b) == IF a < b THEN a ELSE b
Max(a, b) == IF a > b THEN a ELSE b

\* parseAnalysisResponse: the default is kept when the label does not match
DefaultScore == 50
MinScore == 1
MaxScore == 100

parseAnalysisResponse(label) ==
  [viralityScore |-> IF label = NULL THEN DefaultScore
                     ELSE Min(MaxScore, Max(MinScore, label))]

\* writeAnalysisToNotion: the score, Last Analyzed and Needs Reanalysis (the
\* text fields are not modelled)
writeAnalysisKeepingFlag(store, pageId, analysis) ==
  [store EXCEPT ![pageId] =
     [@ EXCEPT !.viralityScore = analysis.viralityScore,
               !.lastAnalyzed = now]]

writeAnalysisToNotion(store, pageId, analysis) ==
  [store EXCEPT ![pageId] =
     [@ EXCEPT !.viralityScore = analysis.viralityScore,
               !.lastAnalyzed = now,
               !.needsReanalysis = FALSE]]

\* the local variables of processHelpRequest outside a call
NoHelp == [ideas |-> <<>>, next |-> 1, created |-> 0, before |-> 0, failed |-> 0]

NoResult == [id |-> NULL, k |-> 0, created |-> 0, archived |-> FALSE,
             added |-> 0, failed |-> 0]

\* processNewIdeas up to the list of ideas: the flag is set, the query is made
processNewIdeasStart ==
  /\ ipc = "idle"
  /\ \E ok \in BOOLEAN :
       /\ queue' = getIdeasNeedingAnalysis(ideas, ok)
       /\ queryOk' = ok
       /\ faults' = faults + Fails(ok)
  /\ faults' <= MaxFaults
  /\ ipc' = "fetched"
  /\ ~Skips(isRunning)
  /\ isRunning' = TRUE
  /\ inFlight' = [inFlight EXCEPT !.ideas = Bump(@)]
  /\ UNCHANGED <<now, analyticsState, ideas, help, helpResult, analyzedOk>>
  /\ UNCHANGED <<analyticsRunning, skipped, mainPc>>
  /\ UNCHANGED extraVars

\* a mutation of processNewIdeasNone: the early return leaves the flag set
processNewIdeasNoneHeld ==
  /\ ipc = "fetched"
  /\ queue = <<>>
  /\ ipc' = "idle"
  /\ inFlight' = [inFlight EXCEPT !.ideas = @ - 1]
  /\ UNCHANGED <<now, analyticsState, ideas, faults, queue, queryOk, help,
                 helpResult, analyzedOk>>
  /\ UNCHANGED <<isRunning, analyticsRunning, skipped, mainPc>>
  /\ UNCHANGED extraVars

\* ideas.length === 0: the flag is cleared and the pass returns
processNewIdeasNone ==
  /\ ipc = "fetched"
  /\ queue = <<>>
  /\ ipc' = "idle"
  /\ isRunning' = FALSE
  /\ inFlight' = [inFlight EXCEPT !.ideas = @ - 1]
  /\ UNCHANGED <<now, analyticsState, ideas, faults, queue, queryOk, help,
                 helpResult, analyzedOk>>
  /\ UNCHANGED <<analyticsRunning, skipped, mainPc>>
  /\ UNCHANGED extraVars

\* the content context is read and the loop starts
processNewIdeasContext ==
  /\ ipc = "fetched"
  /\ queue # <<>>
  /\ ipc' = "loop"
  /\ UNCHANGED <<now, analyticsState, ideas, faults, queue, queryOk, help,
                 helpResult, analyzedOk>>
  /\ UNCHANGED guardVars
  /\ UNCHANGED extraVars

\* analyzeIdea: null when the model call fails, otherwise the parsed reply
\* one turn of the loop for an idea that is not a help request
processIdea ==
  /\ ipc = "loop"
  /\ queue # <<>>
  /\ ~isHelpRequest(Head(queue))
  /\ \E modelOk \in BOOLEAN, label \in ScoreLabels, writeOk \in BOOLEAN :
       LET idea == Head(queue)
           analysis == parseAnalysisResponse(label)
           success == modelOk /\ writeOk
       IN /\ ~modelOk => (label = NULL /\ writeOk)
          /\ ideas' = IF success
                      THEN writeAnalysisToNotion(ideas, idea.id, analysis)
                      ELSE ideas
          /\ analyzedOk' = IF success THEN analyzedOk \cup {idea.id} ELSE analyzedOk
          /\ faults' = faults + Fails(modelOk) + Fails(writeOk)
  /\ faults' <= MaxFaults
  /\ queue' = Tail(queue)
  /\ UNCHANGED <<now, analyticsState, ipc, queryOk, help, helpResult>>
  /\ UNCHANGED guardVars
  /\ UNCHANGED extraVars

\* the reply to the brainstorm prompt: each of the five numbered blocks is
\* missing (a marker is not found), has no TITLE: line, or has one
BlockCount == 5
BlockKinds == {"missing", "untitled", "titled"}

\* the floor of a brainstormed score, which is also its default
BrainstormFloor == 75

\* a block found between its markers: whether it has a TITLE: line, and the
\* text after its VIRALITY_SCORE: label (empty when it has no such label)
Block(kind, score) == [kind |-> kind, score |-> score]

\* the blocks of a reply whose blocks carry no score
PlainBlocks == {Block(kind, <<>>) : kind \in BlockKinds}

\* a mutation of parseIdeaBlock: the score clamped as parseAnalysisResponse does
parseIdeaBlockAsAnalysis(block) ==
  [title |-> IF block.kind = "titled" THEN <<"candidate">> ELSE <<>>,
   viralityScore |-> parseAnalysisResponse(matchScore(block.score)).viralityScore]

\* parseIdeaBlock: the title is empty unless the block has a TITLE: line; the
\* score is 75 unless the label matches, and then it is clamped to 75..100
parseIdeaBlock(block) ==
  [title |-> IF block.kind = "titled" THEN <<"candidate">> ELSE <<>>,
   viralityScore |-> IF matchScore(block.score) = NULL THEN BrainstormFloor
                     ELSE Min(MaxScore, Max(BrainstormFloor, matchScore(block.score)))]

\* parseBrainstormResponse: the blocks found whose parsed title is not empty
parseBrainstormResponse(blocks) ==
  LET Kept(i) == blocks[i].kind # "missing" /\ parseIdeaBlock(blocks[i]).title # <<>>
      found == SelectSeq([i \in 1..BlockCount |-> i], Kept)
  IN [j \in 1..Len(found) |-> parseIdeaBlock(blocks[found[j]])]

\* brainstormIdeas: a failed model call is logged and gives []
brainstormIdeas(modelOk, blocks) ==
  IF modelOk THEN parseBrainstormResponse(blocks) ELSE <<>>

\* createIdeaInNotion: a new page with the candidate's title (after the robot
\* mark) and score, or null
createIdeaInNotion(store, newIdea, ok) ==
  IF ok
  THEN [store |-> Append(store, [EmptyIdea(<<"robot">> \o newIdea.title) EXCEPT
                                   !.viralityScore = newIdea.viralityScore]),
        id |-> Len(store) + 1]
  ELSE [store |-> store, id |-> NULL]

\* archivePage: the page goes to the trash, or false
archivePage(store, pageId, ok) ==
  IF ok THEN [store EXCEPT ![pageId].archived = TRUE] ELSE store

\* if (ideas.length === 0) return { created: 0, archived: false }
NeverNothing(candidates) == FALSE

NothingGenerated(candidates) == Len(candidates) = 0

\* if (pageId) created++
CountAlways(created, pageId) == created + 1

CountCreated(created, pageId) ==
  IF pageId # NULL THEN created + 1 ELSE created

\* processHelpRequest up to the candidates
processHelpRequestStart ==
  /\ ipc = "loop"
  /\ queue # <<>>
  /\ isHelpRequest(Head(queue))
  /\ \E modelOk \in BOOLEAN, blocks \in [1..BlockCount -> PlainBlocks] :
       LET candidates == brainstormIdeas(modelOk, blocks)
       IN /\ ~modelOk => blocks = [i \in 1..BlockCount |-> Block("missing", <<>>)]
          /\ faults' = faults + Fails(modelOk)
          /\ IF NothingGenerated(candidates)
             THEN /\ helpResult' = [id |-> Head(queue).id, k |-> Len(candidates),
                                    created |-> 0, archived |-> FALSE,
                                    added |-> 0, failed |-> Fails(modelOk)]
                  /\ queue' = Tail(queue)
                  /\ UNCHANGED <<ipc, help>>
             ELSE /\ help' = [ideas |-> candidates, next |-> 1, created |-> 0,
                              before |-> Len(ideas), failed |-> 0]
                  /\ ipc' = "create"
                  /\ UNCHANGED <<queue, helpResult>>
  /\ faults' <= MaxFaults
  /\ UNCHANGED <<now, analyticsState, ideas, queryOk, analyzedOk>>
  /\ UNCHANGED guardVars
  /\ UNCHANGED extraVars

\* one turn of the loop that creates the candidates
processHelpRequestCreate ==
  /\ ipc = "create"
  /\ help.next <= Len(help.ideas)
  /\ \E ok \in BOOLEAN :
       LET made == createIdeaInNotion(ideas, help.ideas[help.next], ok)
           counted == IF Len(ideas) < MaxIdeaPages THEN Fails(ok) ELSE 0
       IN /\ ok => Len(ideas) < MaxIdeaPages
          /\ ideas' = made.store
          /\ help' = [help EXCEPT !.next = @ + 1,
                                  !.created = CountCreated(@, made.id),
                                  !.failed = @ + Fails(ok)]
          /\ faults' = faults + counted
  /\ faults' <= MaxFaults
  /\ UNCHANGED <<now, analyticsState, ipc, queue, queryOk, helpResult, analyzedOk>>
  /\ UNCHANGED guardVars
  /\ UNCHANGED extraVars

\* the help request is archived and processHelpRequest returns
processHelpRequestArchive ==
  /\ ipc = "create"
  /\ help.next > Len(help.ideas)
  /\ \E ok \in BOOLEAN :
       /\ ideas' = archivePage(ideas, Head(queue).id, ok)
       /\ helpResult' = [id |-> Head(queue).id, k |-> Len(help.ideas),
                         created |-> help.created, archived |-> ok,
                         added |-> Len(ideas) - help.before,
                         failed |-> help.failed + Fails(ok)]
       /\ faults' = faults + Fails(ok)
  /\ faults' <= MaxFaults
  /\ help' = NoHelp
  /\ queue' = Tail(queue)
  /\ ipc' = "loop"
  /\ UNCHANGED <<now, analyticsState, queryOk, analyzedOk>>
  /\ UNCHANGED guardVars
  /\ UNCHANGED extraVars

\* the loop is over: the flag is cleared
processNewIdeasEnd ==
  /\ ipc = "loop"
  /\ queue = <<>>
  /\ ipc' = "idle"
  /\ isRunning' = FALSE
  /\ inFlight' = [inFlight EXCEPT !.ideas = @ - 1]
  /\ UNCHANGED <<now, analyticsState, ideas, faults, queue, queryOk, help,
                 helpResult, analyzedOk>>
  /\ UNCHANGED <<analyticsRunning, skipped, mainPc>>
  /\ UNCHANGED extraVars

\* the user ticks Needs Reanalysis on an idea the engine has analyzed
UserSetsReanalysis ==
  /\ \E i \in analyzedOk :
       /\ ~ideas[i].needsReanalysis
       /\ ideas' = [ideas EXCEPT ![i].needsReanalysis = TRUE]
       /\ analyzedOk' = analyzedOk \ {i}
  /\ UNCHANGED <<now, analyticsState, faults, ipc, queue, queryOk, help, helpResult>>
  /\ UNCHANGED guardVars
  /\ UNCHANGED extraVars

(* ---------------------- the cycle and its environment ----------------- *)

\* runAnalytics sets its flag and starts runAnalyticsCycle: sync, then
\* milestones, then analysis
runAnalytics ==
  /\ apc = "idle"
  /\ apc' = "sync"
  /\ ~Skips(analyticsRunning)
  /\ analyticsRunning' = TRUE
  /\ inFlight' = [inFlight EXCEPT !.analytics = Bump(@)]
  /\ UNCHANGED <<now, published, videos, trackedVideos, newVideos, allStats,
                 idx, tier, attempted, saved, statWrites, analysisRuns, ideas, faults, userArchived>>
  /\ UNCHANGED ideaVars
  /\ UNCHANGED <<isRunning, skipped, mainPc>>
  /\ UNCHANGED extraVars

\* time passes between passes
Tick ==
  /\ apc = "idle"
  /\ ipc = "idle"
  /\ \E t \in Clock : t > now /\ now' = t
  /\ UNCHANGED <<published, videos, apc, trackedVideos, newVideos, allStats,
                 idx, tier, attempted, saved, statWrites, analysisRuns, ideas, faults, userArchived>>
  /\ UNCHANGED ideaVars
  /\ UNCHANGED guardVars
  /\ UNCHANGED extraVars

\* a video is published on the channel
Publish ==
  /\ apc = "idle"
  /\ \E v \in NativeIds :
       /\ published[v] = NULL
       /\ published' = [published EXCEPT ![v] = now]
  /\ UNCHANGED <<now, videos, apc, trackedVideos, newVideos, allStats,
                 idx, tier, attempted, saved, statWrites, analysisRuns, ideas, faults, userArchived>>
  /\ UNCHANGED ideaVars
  /\ UNCHANGED guardVars
  /\ UNCHANGED extraVars

\* the user archives a tracked page in the database, once
UserArchivesVideo ==
  /\ \E p \in 1..Len(videos) :
       /\ p \notin userArchived
       /\ videos' = [videos EXCEPT ![p].status = "Archived"]
       /\ userArchived' = userArchived \cup {p}
  /\ UNCHANGED <<now, published, apc, trackedVideos, newVideos, allStats,
                 idx, tier, attempted, saved, statWrites, analysisRuns, ideas,
                 faults>>
  /\ UNCHANGED ideaVars
  /\ UNCHANGED guardVars
  /\ UNCHANGED extraVars

Workflows == {"ideas", "analytics"}

\* main has scheduled the cron jobs and nothing runs
GuardIdle ==
  /\ isRunning = FALSE
  /\ analyticsRunning = FALSE
  /\ inFlight = [w \in Workflows |-> 0]
  /\ skipped = [w \in Workflows |-> 0]
  /\ mainPc = "scheduled"

\* no call of tiktokRequest has been made
NoLog == [forced |-> 0, refreshes |-> 0, responses |-> <<>>]

TikTokIdle ==
  /\ tkCaller = NONE
  /\ tkPc = "idle"
  /\ isRetry = FALSE
  /\ credentials = [accessValid |-> TRUE, refreshValid |-> TRUE]
  /\ tkLog = NoLog
  /\ tkResult = NONE

\* no parser has been applied
NoCall == [fn |-> NONE]

\* the language model answers, unless a call fails
ModelUp == modelDown = FALSE

\* syncAllPlatforms is not running
NoSync == [platform |-> NONE]

ExtraIdle ==
  /\ TikTokIdle
  /\ call = NoCall
  /\ ModelUp
  /\ sync = NoSync

\* no idea-processing pass has run
IdeasIdle ==
  /\ ipc = "idle"
  /\ queue = <<>>
  /\ queryOk = TRUE
  /\ help = NoHelp
  /\ helpResult = NoResult
  /\ analyzedOk = {}

\* an idea the user wrote, analyzed earlier and posted
PostedIdea ==
  [EmptyIdea(<<"idea">>) EXCEPT !.status = "Posted", !.viralityScore = 80,
                            !.lastAnalyzed = 0, !.postedUrl = "url"]

Init ==
  /\ now = 0
  /\ published = [v \in NativeIds |-> NULL]
  /\ videos = <<>>
  /\ apc = "idle"
  /\ trackedVideos = <<>>
  /\ newVideos = <<>>
  /\ allStats = <<>>
  /\ idx = 1
  /\ tier = 1
  /\ attempted = [p \in PageIds |-> {}]
  /\ saved = [p \in PageIds |-> {}]
  /\ statWrites = [p \in PageIds |-> [n \in Milestones |-> 0]]
  /\ analysisRuns = [p \in PageIds |-> [n \in Milestones |-> 0]]
  /\ faults = 0
  /\ userArchived = {}
  /\ IdeasIdle
  /\ GuardIdle
  /\ ExtraIdle
  /\ ideas = <<PostedIdea>>

Next ==
  \/ runAnalytics
  \/ syncYouTubeStart
  \/ syncYouTubeCreate
  \/ syncYouTubeStats
  \/ syncYouTubeUpdate
  \/ syncYouTubeEnd
  \/ checkMilestonesStart
  \/ checkMilestonesVideo
  \/ checkMilestonesEnd
  \/ runMilestoneAnalysisStart
  \/ runMilestoneAnalysisStep
  \/ runMilestoneAnalysisEnd
  \/ Tick
  \/ Publish
  \/ UserArchivesVideo

Spec == Init /\ [][Next]_vars

(* ------------------- the analytics cycle: properties ------------------ *)

\* a step leaves the frozen snapshot and the recorded timestamp of every
\* milestone already recorded as they are
FrozenKept ==
  \A p \in 1..Len(videos) :
    \A n \in Milestones :
      videos[p].recorded[n] # NULL =>
        /\ videos'[p].recorded[n] = videos[p].recorded[n]
        /\ videos'[p].views[n] = videos[p].views[n]

\* C3: across any sequence of analytics passes, once the recorded timestamp of
\* a milestone is set for a video no later step writes the frozen snapshot or
\* the timestamp of that milestone again, and saveMilestoneStats writes each
\* milestone of each video at most once.
C3_RecordedOnce ==
  [][ /\ FrozenKept
      /\ \A p \in PageIds : \A n \in Milestones : statWrites'[p][n] <= 1 ]_vars

\* a later checkMilestones pass has gone over a video whose D1 was recorded on
\* an earlier instant and whose current views have moved on since
C3_Witness ==
  /\ apc = "record"
  /\ \E video \in Processed :
       /\ video.postedDate # NULL
       /\ video.recorded[1] # NULL
       /\ video.recorded[1] < now
       /\ video.viewsCurrent # video.views[1]
       /\ statWrites[video.id][1] = 1
       /\ videos[video.id].views[1] = video.views[1]
       /\ videos[video.id].recorded[1] = video.recorded[1]

\* C4 (as stated): for every video and milestone the analysis is produced at
\* most once over any sequence of runMilestoneAnalysis passes.
C4_AnalyzedOnce ==
  \A p \in PageIds : \A n \in Milestones : analysisRuns[p][n] <= 1

\* C5 (as stated): the store holds at most one record per platform and native
\* video id.
C5_OneRecordPerVideo ==
  \A i, j \in 1..Len(videos) :
    (videos[i].platform = videos[j].platform /\ videos[i].videoId = videos[j].videoId)
      => i = j

(* ------------- the milestone rules on enumerated records -------------- *)

\* one tracked video, any of the 16 combinations of recorded milestones, read
\* at any of the listed ages (at the start and at the end of the day)
InitEngine ==
  /\ \E days \in MilestoneDays, h \in {0, HoursPerDay - 1} :
       now = days * HoursPerDay + h
  /\ published = [v \in NativeIds |-> NULL]
  /\ \E flags \in SUBSET Milestones, posted \in {0, NULL}, views \in StatValues :
       videos = << [EmptyPage(1, "YouTube", 1, posted) EXCEPT
                      !.recorded = [n \in Milestones |->
                                      IF n \in flags THEN 0 ELSE NULL],
                      !.views = [n \in Milestones |->
                                   IF n \in flags THEN 0 ELSE NULL],
                      !.viewsCurrent = views,
                      !.status = "Tracking"] >>
  /\ apc = "milestones"
  /\ trackedVideos = <<>>
  /\ newVideos = <<>>
  /\ allStats = <<>>
  /\ idx = 1
  /\ tier = 1
  /\ ideas = <<>>
  /\ attempted = [p \in PageIds |-> {}]
  /\ saved = [p \in PageIds |-> {}]
  /\ statWrites = [p \in PageIds |-> [n \in Milestones |-> 0]]
  /\ analysisRuns = [p \in PageIds |-> [n \in Milestones |-> 0]]
  /\ faults = 0
  /\ userArchived = {}
  /\ IdeasIdle
  /\ GuardIdle
  /\ ExtraIdle

NextEngine ==
  \/ checkMilestonesStart
  \/ checkMilestonesVideo
  \/ checkMilestonesEnd

SpecEngine == InitEngine /\ [][NextEngine]_vars

(* --------------------- the idea pass on drawn stores ------------------- *)

\* the ideas a user has written: with or without a title, a help request or
\* not, scored or not, flagged or not, posted or not
MaxUserIdeas == 2

UserTitles == {<<>>, <<"idea">>, <<"Help", "topic">>}

UserIdeas ==
  {[EmptyIdea(title) EXCEPT !.viralityScore = score,
                            !.lastAnalyzed = IF score = NULL THEN NULL ELSE 0,
                            !.needsReanalysis = flag,
                            !.status = status] :
     title \in UserTitles, score \in {NULL, 80}, flag \in BOOLEAN,
     status \in {NONE, "Posted"}}

\* the drawn ideas that have a title and are not posted
PendingIdeas == {idea \in UserIdeas : idea.title # <<>> /\ idea.status = NONE}

\* the variables of the analytics cycle before any cycle has run
AnalyticsIdle ==
  /\ published = [v \in NativeIds |-> NULL]
  /\ videos = <<>>
  /\ apc = "idle"
  /\ trackedVideos = <<>>
  /\ newVideos = <<>>
  /\ allStats = <<>>
  /\ idx = 1
  /\ tier = 1
  /\ attempted = [p \in PageIds |-> {}]
  /\ saved = [p \in PageIds |-> {}]
  /\ statWrites = [p \in PageIds |-> [n \in Milestones |-> 0]]
  /\ analysisRuns = [p \in PageIds |-> [n \in Milestones |-> 0]]
  /\ userArchived = {}

\* the query of the pass on every store of one or two drawn ideas
InitFilter ==
  /\ now = 0
  /\ AnalyticsIdle
  /\ faults = 0
  /\ IdeasIdle
  /\ GuardIdle
  /\ ExtraIdle
  /\ \E n \in 1..MaxUserIdeas : ideas \in [1..n -> UserIdeas]

NextFilter ==
  \/ processNewIdeasStart
  \/ processNewIdeasNone
  \/ processNewIdeasContext

SpecFilter == InitFilter /\ [][NextFilter]_vars

InitIdeas ==
  /\ now = 0
  /\ published = [v \in NativeIds |-> NULL]
  /\ videos = <<>>
  /\ apc = "idle"
  /\ trackedVideos = <<>>
  /\ newVideos = <<>>
  /\ allStats = <<>>
  /\ idx = 1
  /\ tier = 1
  /\ attempted = [p \in PageIds |-> {}]
  /\ saved = [p \in PageIds |-> {}]
  /\ statWrites = [p \in PageIds |-> [n \in Milestones |-> 0]]
  /\ analysisRuns = [p \in PageIds |-> [n \in Milestones |-> 0]]
  /\ faults = 0
  /\ userArchived = {}
  /\ IdeasIdle
  /\ GuardIdle
  /\ ExtraIdle
  /\ \E n \in 1..MaxUserIdeas : ideas \in [1..n -> PendingIdeas]

NextIdeas ==
  \/ processNewIdeasStart
  \/ processNewIdeasNone
  \/ processNewIdeasContext
  \/ processIdea
  \/ processHelpRequestStart
  \/ processHelpRequestCreate
  \/ processHelpRequestArchive
  \/ processNewIdeasEnd
  \/ UserSetsReanalysis
  \/ Tick

SpecIdeas == InitIdeas /\ [][NextIdeas]_vars

(* ----------------------- the idea pass: properties -------------------- *)

QueueIds == {queue[j].id : j \in 1..Len(queue)}

\* the ideas a successful query of the current store returns
EligibleIds ==
  LET selected == getIdeasNeedingAnalysis(ideas, TRUE)
  IN {selected[j].id : j \in 1..Len(selected)}

AnalyzedState(store, i, waiting) ==
  /\ store[i].viralityScore # NULL
  /\ store[i].viralityScore \in MinScore..MaxScore
  /\ ~store[i].needsReanalysis
  /\ store[i].lastAnalyzed # NULL
  /\ i \notin waiting

\* C7: a successful writeAnalysisToNotion clears Needs Reanalysis, stamps Last
\* Analyzed with the current time and stores a score that is not null; the
\* idea is then returned by no query, and is in no list a pass works on, until
\* the user sets the flag again.
C7_AnalyzedNotSelectedAgain ==
  [][ /\ \A i \in analyzedOk' \ analyzedOk : ideas'[i].lastAnalyzed = now'
      /\ \A i \in analyzedOk' :
           /\ AnalyzedState(ideas', i, QueueIds')
           /\ i \notin EligibleIds' ]_vars

\* an idea analyzed at an earlier instant is left out by a later pass that
\* found other ideas to work on
C7_Witness ==
  /\ ipc = "loop"
  /\ queue # <<>>
  /\ \E i \in analyzedOk :
       /\ ideas[i].lastAnalyzed < now
       /\ i \notin QueueIds

\* C9 (as stated): a help request that yields k >= 1 candidates ends archived,
\* with exactly k new ideas created.
C9_ArchivedAndAllCreated ==
  helpResult.k >= 1 =>
    /\ helpResult.archived
    /\ ideas[helpResult.id].archived
    /\ helpResult.created = helpResult.k
    /\ helpResult.added = helpResult.k

\* C9 (amended): a help request that yields k >= 1 candidates (k <= 5) ends
\* with as many new ideas as creations succeeded, at most k, and archived
\* exactly when the archive write succeeded; when no write fails that is k new
\* ideas and the request archived.  An archived request is returned by no
\* later query.
C9_HelpOutcome ==
  helpResult.k >= 1 =>
    /\ helpResult.k <= BlockCount
    /\ helpResult.created <= helpResult.k
    /\ helpResult.added = helpResult.created
    /\ helpResult.archived <=> ideas[helpResult.id].archived
    /\ helpResult.failed = 0 =>
         (helpResult.archived /\ helpResult.created = helpResult.k)
    /\ ideas[helpResult.id].archived =>
         (helpResult.id \notin QueueIds /\ helpResult.id \notin EligibleIds)

\* five candidates were created, the request was archived, and a later pass
\* has made its query
C9_Witness ==
  /\ helpResult.k = BlockCount
  /\ helpResult.created = BlockCount
  /\ helpResult.archived
  /\ ipc = "fetched"
  /\ queryOk
  /\ helpResult.id \notin QueueIds

\* C10: a help request whose brainstorm yields no candidate (the model call
\* failed, or no block has both markers and a title) creates no idea and is
\* not archived; it is still returned by the query.
C10_NothingGenerated ==
  (helpResult.id # NULL /\ helpResult.k = 0) =>
    /\ helpResult.created = 0
    /\ helpResult.added = 0
    /\ ~helpResult.archived
    /\ ~ideas[helpResult.id].archived
    /\ helpResult.id \in EligibleIds

\* the request that yielded nothing is in the list of the next pass
C10_Witness ==
  /\ helpResult.id # NULL
  /\ helpResult.k = 0
  /\ ipc = "fetched"
  /\ helpResult.id \in QueueIds

(* ---------------- the run flags: startup, cron and HTTP ---------------- *)

\* what the guards leave alone
workVars == <<analyticsVars, ideas, userArchived, ideaVars, extraVars>>

\* a call of processNewIdeas up to its first await, the body of the pass left
\* out: the guard, then the flag is set
processNewIdeasCall ==
  IF Skips(isRunning)
  THEN /\ skipped' = [skipped EXCEPT !.ideas = Bump(@)]
       /\ UNCHANGED <<isRunning, inFlight>>
  ELSE /\ isRunning' = TRUE
       /\ inFlight' = [inFlight EXCEPT !.ideas = Bump(@)]
       /\ UNCHANGED skipped

\* a call of runAnalytics up to its first await, the cycle left out
runAnalyticsCall ==
  IF Skips(analyticsRunning)
  THEN /\ skipped' = [skipped EXCEPT !.analytics = Bump(@)]
       /\ UNCHANGED <<analyticsRunning, inFlight>>
  ELSE /\ analyticsRunning' = TRUE
       /\ inFlight' = [inFlight EXCEPT !.analytics = Bump(@)]
       /\ UNCHANGED skipped

\* main: await processNewIdeas(), after createServer()
StartupIdeas ==
  /\ mainPc = "start"
  /\ processNewIdeasCall
  /\ mainPc' = IF Skips(isRunning) THEN "analytics" ELSE "awaitIdeas"
  /\ UNCHANGED <<analyticsRunning, workVars>>

\* POST /analyze: processNewIdeas() in the background; the server answers
\* requests once main has reached its first await
HttpAnalyze ==
  /\ mainPc # "start"
  /\ processNewIdeasCall
  /\ UNCHANGED <<analyticsRunning, mainPc, workVars>>

\* cron.schedule(ideaCron, processNewIdeas)
CronIdeas ==
  /\ mainPc = "scheduled"
  /\ processNewIdeasCall
  /\ UNCHANGED <<analyticsRunning, mainPc, workVars>>

\* a pass of processNewIdeas ends (no ideas found, the loop is over, or the
\* outer catch): the flag is cleared
processNewIdeasReturn ==
  /\ inFlight.ideas > 0
  /\ isRunning' = FALSE
  /\ inFlight' = [inFlight EXCEPT !.ideas = @ - 1]
  /\ mainPc' = IF mainPc = "awaitIdeas" THEN "analytics" ELSE mainPc
  /\ UNCHANGED <<analyticsRunning, skipped, workVars>>

\* main: if (config.notion.analyticsDbId) await runAnalytics()
StartupAnalytics ==
  /\ mainPc = "analytics"
  /\ \E configured \in BOOLEAN :
       IF configured
       THEN /\ runAnalyticsCall
            /\ mainPc' = IF Skips(analyticsRunning) THEN "scheduled"
                         ELSE "awaitAnalytics"
       ELSE /\ mainPc' = "scheduled"
            /\ UNCHANGED <<analyticsRunning, inFlight, skipped>>
  /\ UNCHANGED <<isRunning, workVars>>

\* POST /analytics: runAnalytics() in the background
HttpAnalytics ==
  /\ mainPc # "start"
  /\ runAnalyticsCall
  /\ UNCHANGED <<isRunning, mainPc, workVars>>

\* cron.schedule(analyticsCron, runAnalytics)
CronAnalytics ==
  /\ mainPc = "scheduled"
  /\ runAnalyticsCall
  /\ UNCHANGED <<isRunning, mainPc, workVars>>

\* runAnalyticsCycle returns or throws: the flag is cleared
runAnalyticsReturn ==
  /\ inFlight.analytics > 0
  /\ analyticsRunning' = FALSE
  /\ inFlight' = [inFlight EXCEPT !.analytics = @ - 1]
  /\ mainPc' = IF mainPc = "awaitAnalytics" THEN "scheduled" ELSE mainPc
  /\ UNCHANGED <<isRunning, skipped, workVars>>

InitGuard ==
  /\ now = 0
  /\ AnalyticsIdle
  /\ faults = 0
  /\ ideas = <<>>
  /\ IdeasIdle
  /\ isRunning = FALSE
  /\ analyticsRunning = FALSE
  /\ inFlight = [w \in Workflows |-> 0]
  /\ skipped = [w \in Workflows |-> 0]
  /\ mainPc = "start"
  /\ ExtraIdle

NextGuard ==
  \/ StartupIdeas
  \/ HttpAnalyze
  \/ CronIdeas
  \/ processNewIdeasReturn
  \/ StartupAnalytics
  \/ HttpAnalytics
  \/ CronAnalytics
  \/ runAnalyticsReturn

SpecGuard == InitGuard /\ [][NextGuard]_vars

\* C8: under any interleaving of the startup run, the cron ticks and the HTTP
\* triggers, at most one processNewIdeas pass and at most one runAnalytics
\* pass are in flight; a pass starts only while its workflow's flag is clear,
\* and a call that finds the flag set changes neither flag and starts nothing.
\* Passes of the two workflows may overlap.
C8_OnePassPerWorkflow ==
  [][ /\ \A w \in Workflows : inFlight'[w] <= 1
      /\ inFlight'.ideas > inFlight.ideas => ~isRunning
      /\ inFlight'.analytics > inFlight.analytics => ~analyticsRunning
      /\ skipped'.ideas # skipped.ideas => isRunning
      /\ skipped'.analytics # skipped.analytics => analyticsRunning
      /\ skipped' # skipped =>
           UNCHANGED <<isRunning, analyticsRunning, inFlight>> ]_vars

\* an ideas pass and an analytics pass are in flight together, and a call of
\* each workflow has returned at the guard
C8_Witness ==
  /\ inFlight.ideas = 1
  /\ inFlight.analytics = 1
  /\ isRunning
  /\ analyticsRunning
  /\ skipped.ideas >= 1
  /\ skipped.analytics >= 1

(* ------------------------- tiktokRequest ------------------------------ *)

\* what the variables outside a call of tiktokRequest keep
tiktokOthers ==
  <<analyticsVars, ideas, userArchived, ideaVars, guardVars, call, modelDown, sync>>

\* the answers of the TikTok API to a request: accepted, the token rejected
\* (HTTP 401, or error.code access_token_invalid), or another error
Responses == {"ok", "401", "access_token_invalid", "error"}

\* data.error?.code === 'access_token_invalid' || response.status === 401
TokenRejected(response) == response \in {"401", "access_token_invalid"}

\* refreshAccessToken: the token endpoint answers with new tokens, which are
\* saved to Sanity, or the refresh fails (an error in the answer, a missing
\* client key, an exception) and null is returned
refreshAccessToken(creds, ok, fresh) ==
  IF ok
  THEN [token |-> TRUE, credentials |-> [accessValid |-> fresh, refreshValid |-> TRUE]]
  ELSE [token |-> FALSE, credentials |-> creds]

\* getValidAccessToken: no token when the credentials cannot be read; the
\* stored token when it is still valid and no refresh is forced; no token when
\* the refresh token has expired; otherwise the outcome of refreshAccessToken
getValidAccessToken(creds, forceRefresh, readOk, refreshOk, fresh) ==
  IF ~readOk
  THEN [token |-> FALSE, credentials |-> creds, refreshed |-> 0]
  ELSE IF ~forceRefresh /\ creds.accessValid
  THEN [token |-> TRUE, credentials |-> creds, refreshed |-> 0]
  ELSE IF ~creds.refreshValid
  THEN [token |-> FALSE, credentials |-> creds, refreshed |-> 0]
  ELSE [token |-> refreshAccessToken(creds, refreshOk, fresh).token,
        credentials |-> refreshAccessToken(creds, refreshOk, fresh).credentials,
        refreshed |-> 1]

\* if (... && !isRetry): the rejected request is retried
RetriesAlways(response, retry) == TokenRejected(response)

RetriesOnce(response, retry) == TokenRejected(response) /\ ~retry

\* the exported functions that call tiktokRequest
Callers == {"getUserInfo", "getUserVideos", "getVideoStats"}

\* what the caller returns: the data of an accepted answer, or its empty
\* result (null, no videos, []) when tiktokRequest threw, when the answer
\* carries an error, or when it carries no data.  An accepted answer carries
\* error.code "ok", which getVideoStats takes for an error
callerReturns(caller, result) ==
  IF result = "ok" /\ caller # "getVideoStats" THEN "data" ELSE "empty"

\* a caller calls tiktokRequest; time has passed since the last call
tiktokRequestCall ==
  /\ tkPc \in {"idle", "done"}
  /\ \E caller \in Callers : tkCaller' = caller
  /\ tkPc' = "token"
  /\ isRetry' = FALSE
  /\ tkLog' = NoLog
  /\ tkResult' = NONE
  /\ \E accessValid \in BOOLEAN, refreshValid \in BOOLEAN :
       /\ accessValid => credentials.accessValid
       /\ refreshValid => credentials.refreshValid
       /\ credentials' = [accessValid |-> accessValid, refreshValid |-> refreshValid]
  /\ UNCHANGED tiktokOthers

\* const accessToken = await getValidAccessToken(); if (!accessToken) throw
tiktokRequestToken ==
  /\ tkPc = "token"
  /\ \E readOk \in BOOLEAN, refreshOk \in BOOLEAN, fresh \in BOOLEAN :
       LET got == getValidAccessToken(credentials, FALSE, readOk, refreshOk, fresh)
       IN /\ got.refreshed = 0 => (refreshOk /\ fresh)
          /\ ~refreshOk => fresh
          /\ credentials' = got.credentials
          /\ tkLog' = [tkLog EXCEPT !.refreshes = @ + got.refreshed]
          /\ IF got.token
             THEN tkPc' = "send" /\ UNCHANGED tkResult
             ELSE tkPc' = "done" /\ tkResult' = "not authenticated"
  /\ UNCHANGED <<tkCaller, isRetry>>
  /\ UNCHANGED tiktokOthers

\* the request is sent; a rejected first attempt goes on to the forced
\* refresh, any other answer is returned to the caller
tiktokRequestSend ==
  /\ tkPc = "send"
  /\ \E response \in Responses :
       /\ tkLog' = [tkLog EXCEPT !.responses = Append(@, response)]
       /\ IF RetriesOnce(response, isRetry)
          THEN tkPc' = "force" /\ UNCHANGED tkResult
          ELSE tkPc' = "done" /\ tkResult' = response
  /\ UNCHANGED <<tkCaller, isRetry, credentials>>
  /\ UNCHANGED tiktokOthers

\* const newToken = await getValidAccessToken(true); the request is called
\* again with isRetry = true, or the call throws
tiktokRequestForce ==
  /\ tkPc = "force"
  /\ \E readOk \in BOOLEAN, refreshOk \in BOOLEAN, fresh \in BOOLEAN :
       LET got == getValidAccessToken(credentials, TRUE, readOk, refreshOk, fresh)
       IN /\ got.refreshed = 0 => (refreshOk /\ fresh)
          /\ ~refreshOk => fresh
          /\ credentials' = got.credentials
          /\ tkLog' = [tkLog EXCEPT !.forced = @ + 1,
                                        !.refreshes = @ + got.refreshed]
          /\ IF got.token
             THEN tkPc' = "token" /\ isRetry' = TRUE /\ UNCHANGED tkResult
             ELSE /\ tkPc' = "done"
                  /\ tkResult' = "refresh failed"
                  /\ UNCHANGED isRetry
  /\ UNCHANGED tkCaller
  /\ UNCHANGED tiktokOthers

InitTikTok ==
  /\ now = 0
  /\ AnalyticsIdle
  /\ faults = 0
  /\ ideas = <<>>
  /\ IdeasIdle
  /\ GuardIdle
  /\ ExtraIdle

NextTikTok ==
  \/ tiktokRequestCall
  \/ tiktokRequestToken
  \/ tiktokRequestSend
  \/ tiktokRequestForce

SpecTikTok == InitTikTok /\ [][NextTikTok]_vars

(* --------------------- tiktokRequest: properties ---------------------- *)

\* the first answer of the finished call rejected the token
FirstRejected ==
  /\ tkPc = "done"
  /\ tkLog.responses # <<>>
  /\ TokenRejected(tkLog.responses[1])

\* C11 (as stated): a token rejection triggers exactly one forced refresh
\* followed by exactly one re-send, unless the forced refresh fails, and then
\* the call fails without re-sending.
C11_OneRefreshOneResend ==
  FirstRejected =>
    /\ tkLog.forced = 1
    /\ IF tkResult = "refresh failed"
       THEN Len(tkLog.responses) = 1
       ELSE Len(tkLog.responses) = 2

\* C11 (amended): a token rejection of the first attempt triggers exactly one
\* forced getValidAccessToken; when it gives no token the call throws without
\* re-sending; when it gives one, the credentials are read once more and the
\* request is re-sent exactly once, unless that read gives no token, and then
\* the call throws without re-sending.  The answer to the re-sent request is
\* returned whatever it is: no second forced refresh, no third attempt.  In
\* every one of these failures the caller returns its empty result.
C11_RefreshAndRetryOnce ==
  FirstRejected =>
    /\ tkLog.forced = 1
    /\ Len(tkLog.responses) <= 2
    /\ tkResult = "refresh failed" => Len(tkLog.responses) = 1
    /\ tkResult = "not authenticated" => Len(tkLog.responses) = 1
    /\ tkResult \in Responses =>
         /\ Len(tkLog.responses) = 2
         /\ tkResult = tkLog.responses[2]
    /\ tkResult # "ok" => callerReturns(tkCaller, tkResult) = "empty"

\* the request was rejected, the token refreshed, and the re-sent request
\* rejected again: the rejection is what the call returns
C11_Witness ==
  /\ tkPc = "done"
  /\ Len(tkLog.responses) = 2
  /\ TokenRejected(tkLog.responses[1])
  /\ TokenRejected(tkLog.responses[2])
  /\ tkLog.forced = 1
  /\ tkLog.refreshes = 1
  /\ isRetry
  /\ tkResult = tkLog.responses[2]

(* --------------- a video discovered late: the cycle repeated ---------- *)

\* the ages, in days, at which the video is first synced
LateDays == {40, 95}

\* the video was published at time 0 and no cycle has run since; the language
\* model is up or down for the whole run
InitLate ==
  /\ \E days \in LateDays : now = days * HoursPerDay
  /\ published = [v \in NativeIds |-> 0]
  /\ videos = <<>>
  /\ apc = "idle"
  /\ trackedVideos = <<>>
  /\ newVideos = <<>>
  /\ allStats = <<>>
  /\ idx = 1
  /\ tier = 1
  /\ attempted = [p \in PageIds |-> {}]
  /\ saved = [p \in PageIds |-> {}]
  /\ statWrites = [p \in PageIds |-> [n \in Milestones |-> 0]]
  /\ analysisRuns = [p \in PageIds |-> [n \in Milestones |-> 0]]
  /\ faults = 0
  /\ userArchived = {}
  /\ ideas = <<>>
  /\ IdeasIdle
  /\ GuardIdle
  /\ TikTokIdle
  /\ call = NoCall
  /\ sync = NoSync
  /\ modelDown \in BOOLEAN

\* runAnalyticsCycle, again and again
NextLate ==
  \/ runAnalytics
  \/ syncYouTubeStart
  \/ syncYouTubeCreate
  \/ syncYouTubeStats
  \/ syncYouTubeUpdate
  \/ syncYouTubeEnd
  \/ checkMilestonesStart
  \/ checkMilestonesVideo
  \/ checkMilestonesEnd
  \/ runMilestoneAnalysisStart
  \/ runMilestoneAnalysisStep
  \/ runMilestoneAnalysisEnd

SpecLate == InitLate /\ [][NextLate]_vars

\* the cron job keeps starting cycles and every cycle runs to its end
SpecLateFair == SpecLate /\ WF_vars(NextLate)

\* the milestones of a record that are recorded
RecordedOf(video) == {n \in Milestones : video.recorded[n] # NULL}

\* C12: starting from a record the sync has just created, every
\* checkMilestones pass calls saveMilestoneStats for at most one milestone of
\* a video, and that milestone is the first one not yet recorded: D1 in the
\* first pass, D7 in the next, D30 in the one after, and D90 only at 90 days.
C12_OneTierPerPass ==
  apc = "record" =>
    \A video \in Processed :
      /\ Cardinality(attempted[video.id]) <= 1
      /\ \A n \in attempted[video.id] :
           RecordedOf(video) = {m \in Milestones : m < n}

\* a 40 days old video, first synced at that age, gets D30 in a pass that
\* found D1 and D7 recorded by earlier passes
C12_Witness ==
  /\ apc = "record"
  /\ \E video \in Processed :
       /\ daysSincePost(video) = 40
       /\ RecordedOf(video) = {1, 7}
       /\ saved[video.id] = {30}
       /\ statWrites[video.id][1] = 1
       /\ statWrites[video.id][7] = 1
       /\ RecordedOf(videos[video.id]) = {1, 7, 30}

\* the store holds a record of the video with every milestone recorded
AllRecorded ==
  \E p \in 1..Len(videos) : RecordedOf(videos[p]) = Milestones

\* the recorded milestones of every record stay a prefix of D1, D7, D30, D90
\* and one step adds at most one milestone to a record
RecordedInOrder ==
  \A p \in 1..Len(videos) :
    /\ PrefixClosed(videos[p])
    /\ p <= Len(videos') =>
         /\ RecordedOf(videos[p]) \subseteq RecordedOf(videos'[p])
         /\ Cardinality(RecordedOf(videos'[p]) \ RecordedOf(videos[p])) <= 1
         /\ PrefixClosed(videos'[p])

\* C13: with the language model failing every analysis call, a video that is
\* at least 90 days old when it is first synced has, after enough analytics
\* cycles, all four milestones recorded, and they are recorded in the order
\* D1, D7, D30, D90, one at a time.
C13_CaptureWithoutAnalysis ==
  /\ [][RecordedInOrder]_vars
  /\ (modelDown /\ now >= 90 * HoursPerDay) ~> (modelDown /\ AllRecorded)

\* all four milestones are recorded and the analysis pass that followed has
\* been through the record without the model producing an analysis
C13_Witness ==
  /\ modelDown
  /\ apc = "analyze"
  /\ idx > Len(trackedVideos)
  /\ Len(trackedVideos) > 0
  /\ \E p \in 1..Len(videos) :
       /\ daysSincePost(videos[p]) >= 90
       /\ RecordedOf(videos[p]) = Milestones
       /\ \A n \in Milestones :
            /\ videos[p].analysis[n] = ""
            /\ statWrites[p][n] = 1
            /\ analysisRuns[p][n] = 0

(* ------------------- syncAllPlatforms: one sync pass ------------------ *)

\* the variables a pure function or the platform loop leaves alone
restVars ==
  <<analyticsVars, ideas, userArchived, ideaVars, guardVars, tiktokVars,
    modelDown>>

\* the state of everything but the operation in hand
RestIdle ==
  /\ now = 0
  /\ AnalyticsIdle
  /\ faults = 0
  /\ ideas = <<>>
  /\ IdeasIdle
  /\ GuardIdle
  /\ TikTokIdle
  /\ ModelUp

\* the most items one platform needs created, or has tracked, in a pass
MaxSyncItems == 2

\* the platforms, in the order syncAllPlatforms takes them
PlatformSeq == <<"YouTube", "TikTok">>

Platforms == {PlatformSeq[i] : i \in 1..Len(PlatformSeq)}

\* const result = { new: 0, updated: 0, errors: 0 }
ZeroResult == [new |-> 0, updated |-> 0, errors |-> 0]

\* a mutation of the loop: a failed platform ends the pass
AbortAll(platform) == "done"

\* the statement after the try/catch of one platform
NextPlatform(platform) ==
  IF platform = PlatformSeq[Len(PlatformSeq)] THEN "done"
  ELSE PlatformSeq[(CHOOSE i \in 1..Len(PlatformSeq) : PlatformSeq[i] = platform) + 1]

\* the platform's sync returns: results.X = result, and the next try block
platformReturns(s, result, next) ==
  [s EXCEPT !.results[s.platform] = result,
            !.result = ZeroResult,
            !.phase = "fetch",
            !.todo = 0,
            !.tracked = 0,
            !.platform = next]

\* syncAllPlatforms is called
syncAllPlatforms ==
  /\ sync.platform = NONE
  /\ sync' = [platform |-> PlatformSeq[1],
              phase |-> "fetch",
              result |-> ZeroResult,
              results |-> [p \in Platforms |-> ZeroResult],
              todo |-> 0,
              tracked |-> 0,
              began |-> <<PlatformSeq[1]>>,
              threw |-> {},
              calls |-> [p \in Platforms |-> 0]]
  /\ UNCHANGED <<restVars, call>>

\* the platform's catalogue and the tracked list are fetched; an exception
\* goes to the catch of the platform's sync, which counts it and returns
syncFetch ==
  /\ sync.platform \in Platforms
  /\ sync.phase = "fetch"
  /\ \/ \E new \in 0..MaxSyncItems, tracked \in 0..MaxSyncItems :
          sync' = [sync EXCEPT !.phase = "create", !.todo = new,
                               !.tracked = tracked]
     \/ LET next == NextPlatform(sync.platform)
            thrown == [sync EXCEPT !.threw = @ \cup {sync.platform},
                                   !.began = IF next \in Platforms
                                             THEN Append(@, next) ELSE @]
        IN sync' = platformReturns(thrown,
                     [sync.result EXCEPT !.errors = @ + 1], next)
  /\ UNCHANGED <<restVars, call>>

\* createVideoEntry for one new video: result.new++ or result.errors++
syncCreateEntry ==
  /\ sync.platform \in Platforms
  /\ sync.phase = "create"
  /\ sync.todo > 0
  /\ \E pageId \in BOOLEAN :
       sync' = [sync EXCEPT !.todo = @ - 1,
                            !.calls[sync.platform] = @ + 1,
                            !.result = IF pageId
                                       THEN [@ EXCEPT !.new = @ + 1]
                                       ELSE [@ EXCEPT !.errors = @ + 1]]
  /\ UNCHANGED <<restVars, call>>

\* the statistics of the tracked videos are fetched; an exception goes to
\* the catch of the platform's sync, with the counts so far kept
syncFetchStats ==
  /\ sync.platform \in Platforms
  /\ sync.phase = "create"
  /\ sync.todo = 0
  /\ \/ sync' = [sync EXCEPT !.phase = "update", !.todo = sync.tracked]
     \/ /\ sync.tracked > 0
        /\ LET next == NextPlatform(sync.platform)
               thrown == [sync EXCEPT !.threw = @ \cup {sync.platform},
                                      !.began = IF next \in Platforms
                                                THEN Append(@, next) ELSE @]
           IN sync' = platformReturns(thrown,
                        [sync.result EXCEPT !.errors = @ + 1], next)
  /\ UNCHANGED <<restVars, call>>

\* updateCurrentStats for one tracked video: result.updated++ or result.errors++
syncUpdateStats ==
  /\ sync.platform \in Platforms
  /\ sync.phase = "update"
  /\ sync.todo > 0
  /\ \E success \in BOOLEAN :
       sync' = [sync EXCEPT !.todo = @ - 1,
                            !.calls[sync.platform] = @ + 1,
                            !.result = IF success
                                       THEN [@ EXCEPT !.updated = @ + 1]
                                       ELSE [@ EXCEPT !.errors = @ + 1]]
  /\ UNCHANGED <<restVars, call>>

\* the platform's sync returns its result
syncReturn ==
  /\ sync.platform \in Platforms
  /\ sync.phase = "update"
  /\ sync.todo = 0
  /\ LET next == NextPlatform(sync.platform)
         began == [sync EXCEPT !.began = IF next \in Platforms
                                         THEN Append(@, next) ELSE @]
     IN sync' = platformReturns(began, sync.result, next)
  /\ UNCHANGED <<restVars, call>>

InitPlatforms ==
  /\ RestIdle
  /\ call = NoCall
  /\ sync = NoSync

NextPlatforms ==
  \/ syncAllPlatforms
  \/ syncFetch
  \/ syncCreateEntry
  \/ syncFetchStats
  \/ syncUpdateStats
  \/ syncReturn

SpecPlatforms == InitPlatforms /\ [][NextPlatforms]_vars

\* what a platform reports: its counters add up to the calls it made, plus
\* one error if its sync was aborted by an exception
ReportsOwnWork(platform) ==
  LET r == sync.results[platform]
  IN r.new + r.updated + r.errors =
       sync.calls[platform] + (IF platform \in sync.threw THEN 1 ELSE 0)

\* C14: when syncAllPlatforms returns, every platform's sync has run, in
\* order, whether or not an earlier platform threw; a platform that threw has
\* the exception in its own errors counter, and every platform's counters are
\* those of its own calls only.
C14_PlatformsIndependent ==
  sync.platform = "done" =>
    /\ sync.began = PlatformSeq
    /\ \A platform \in Platforms :
         /\ platform \in sync.threw => sync.results[platform].errors >= 1
         /\ ReportsOwnWork(platform)

\* YouTube threw after creating an entry, and TikTok still created and updated
C14_Witness ==
  /\ sync.platform = "done"
  /\ sync.threw = {"YouTube"}
  /\ sync.results["YouTube"] = [new |-> 1, updated |-> 0, errors |-> 1]
  /\ sync.results["TikTok"].new > 0
  /\ sync.results["TikTok"].updated > 0
  /\ sync.results["TikTok"].errors = 0

(* --------------------- the refresh of current metrics ----------------- *)

\* the records whose statistics the running sync asks the platform for
RefreshedIds == {trackedVideos[i].id : i \in 1..Len(trackedVideos)}

\* C15: when a sync pass in which no call failed fetches the statistics, the
\* records it refreshes are all the YouTube records of the store that are not
\* archived, those the pass created itself included.
C15_RefreshCoversCreated ==
  (apc = "update" /\ faults = 0) =>
    \A p \in 1..Len(videos) :
      (IsYouTube(videos[p]) /\ NotArchived(videos[p])) => p \in RefreshedIds

(* ------------------------ the report's queries ------------------------ *)

\* generateWeeklyReport asks for getTopPerformers(5, 30)
TopLimit == 5

TopDays == 30

\* getThisWeeksVideos: weekAgo.setDate(weekAgo.getDate() - 7)
WeekDays == 7

\* sorts: Views Current, descending; pages without the number come last
RECURSIVE InsertByViews(_, _)
InsertByViews(list, page) ==
  IF list = <<>> THEN <<page>>
  ELSE IF page.viewsCurrent > Head(list).viewsCurrent
       THEN <<page>> \o list
       ELSE <<Head(list)>> \o InsertByViews(Tail(list), page)

RECURSIVE SortByViews(_)
SortByViews(list) ==
  IF list = <<>> THEN <<>>
  ELSE InsertByViews(SortByViews(Tail(list)), Head(list))

\* Posted Date: { after: cutoff }
PostedAfter(page, days) ==
  page.postedDate # NULL /\ page.postedDate > now - days * HoursPerDay

\* getTopPerformers: posted in the last `days` days with Views Current set,
\* most viewed first, at most `limit` pages; the filter has no Status clause
getTopPerformers(store, limit, days, ok) ==
  LET Matches(page) == PostedAfter(page, days) /\ page.viewsCurrent # NULL
      sorted == SortByViews(SelectSeq(store, Matches))
  IN IF ok THEN SubSeq(sorted, 1, Min(limit, Len(sorted))) ELSE <<>>

\* getThisWeeksVideos: posted in the last seven days, most viewed first; the
\* filter has no Status clause
getThisWeeksVideos(store, ok) ==
  LET Matches(page) == PostedAfter(page, WeekDays)
  IN IF ok THEN SortByViews(SelectSeq(store, Matches)) ELSE <<>>

\* the page ids of a query's answer
IdsOf(list) == {list[i].id : i \in 1..Len(list)}

\* C16: a tracked video whose status is Archived is in the answer of none of
\* the queries on the tracked-video store: the tracked list, the lookup by
\* native id, the top performers and this week's videos.
C16_ArchivedExcluded ==
  \A p \in 1..Len(videos) :
    videos[p].status = "Archived" =>
      /\ p \notin IdsOf(getAllTrackedVideos(videos, TRUE))
      /\ findVideoByPlatformId(videos, videos[p].videoId,
                               videos[p].platform, TRUE) # p
      /\ p \notin IdsOf(getTopPerformers(videos, TopLimit, TopDays, TRUE))
      /\ p \notin IdsOf(getThisWeeksVideos(videos, TRUE))

(* ----------------- parseAnalysisResponse: the score label ------------- *)

\* parseAnalysisResponse is applied to a reply with that score label
parseScore ==
  /\ call.fn = "reply"
  /\ call' = [fn |-> "parseAnalysisResponse",
              text |-> call.text,
              analysis |-> parseAnalysisResponse(matchScore(call.text))]
  /\ UNCHANGED <<restVars, sync>>

InitScore ==
  /\ RestIdle
  /\ sync = NoSync
  /\ \E text \in ScoreTexts : call = [fn |-> "reply", text |-> text]

NextScore == parseScore

SpecScore == InitScore /\ [][NextScore]_vars

\* C17: the score labels "150", "-5", "abc" and "" give the scores 100, 1, 50
\* and 50, and every score label gives an integer score from 1 to 100.
C17_ScoreOfLabel ==
  call.fn = "parseAnalysisResponse" =>
    LET score == call.analysis.viralityScore
    IN /\ call.text = <<"1", "5", "0">> => score = 100
       /\ call.text = <<"-", "5">> => score = 1
       /\ call.text = <<"a", "b", "c">> => score = DefaultScore
       /\ call.text = <<>> => score = DefaultScore
       /\ score \in MinScore..MaxScore

(* ------------------ parseBrainstormResponse: the blocks --------------- *)

\* the texts after the score label of a brainstormed block: none, below the
\* floor, within the range, above the ceiling, not a number
BlockScoreTexts ==
  {<<>>, <<"5">>, <<"8", "5">>, <<"1", "5", "0">>, <<"-", "5">>}

\* the blocks of a reply to the brainstorm prompt
IdeaBlocks ==
  {Block("missing", <<>>)} \cup
  {Block(kind, score) : kind \in BlockKinds \ {"missing"}, score \in BlockScoreTexts}

\* parseBrainstormResponse is applied to a reply with those blocks
parseBrainstorm ==
  /\ call.fn = "reply"
  /\ call' = [fn |-> "parseBrainstormResponse",
              blocks |-> call.blocks,
              ideas |-> parseBrainstormResponse(call.blocks)]
  /\ UNCHANGED <<restVars, sync>>

InitBrainstorm ==
  /\ RestIdle
  /\ sync = NoSync
  /\ \E blocks \in [1..BlockCount -> IdeaBlocks] :
       call = [fn |-> "reply", blocks |-> blocks]

NextBrainstorm == parseBrainstorm

SpecBrainstorm == InitBrainstorm /\ [][NextBrainstorm]_vars

\* the score the claim gives to the text after a block's score label
ScoreBySpec(text) ==
  LET n == matchScore(text)
  IN IF n = NULL THEN 75
     ELSE IF n < 75 THEN 75
     ELSE IF n > 100 THEN 100
     ELSE n

\* the titled blocks of a reply, in order
TitledBlocks(blocks) ==
  LET Titled(block) == block.kind = "titled"
  IN SelectSeq(blocks, Titled)

\* C18: parseBrainstormResponse returns at most five candidates, one for each
\* titled block and in their order; each has a title that is not empty and a
\* score from 75 to 100: 75 when the block's score is missing, not a number or
\* below 75, 100 when it is above 100, and the score itself otherwise.
C18_CandidatesInRange ==
  call.fn = "parseBrainstormResponse" =>
    /\ Len(call.ideas) <= 5
    /\ Len(call.ideas) = Len(TitledBlocks(call.blocks))
    /\ \A j \in 1..Len(call.ideas) :
         /\ call.ideas[j].title # <<>>
         /\ call.ideas[j].viralityScore \in 75..100
         /\ call.ideas[j].viralityScore =
              ScoreBySpec(TitledBlocks(call.blocks)[j].score)

\* five titled blocks whose scores are missing, below, within, above and not
\* a number give five candidates scored 75, 75, 85, 100, 75
C18_Witness ==
  /\ call.fn = "parseBrainstormResponse"
  /\ call.blocks = <<Block("titled", <<>>), Block("titled", <<"5">>),
                     Block("titled", <<"8", "5">>),
                     Block("titled", <<"1", "5", "0">>),
                     Block("titled", <<"-", "5">>)>>
  /\ [j \in 1..5 |-> call.ideas[j].viralityScore] = <<75, 75, 85, 100, 75>>

(* ---------------- updateCurrentStats: the engagement rate ------------- *)

\* the counts a platform reports for a video
StatCounts ==
  [views : {0, 1, 3, 160, 10000}, likes : {0, 1, 23, 500},
   comments : {0, 1, 50}, shares : {0, 25}]

\* the engagement rate is kept in hundredths of a percent
PerCent == 100

Hundredths == 100

\* a mutation of the rounding: the digits after the second decimal are cut
engagementTruncated(stats, tieUp) ==
  IF stats.views > 0
  THEN ((stats.likes + stats.comments + stats.shares) * PerCent * Hundredths)
         \div stats.views
  ELSE NULL

\* if (stats.views > 0) the Engagement Rate property is
\* Math.round(((likes + comments + shares) / views) * 100 * 100) / 100, and
\* otherwise the property is not written (NULL). The quotient is computed
\* in floating point: when it lies exactly half way between two hundredths
\* the product handed to Math.round falls on either side, which tieUp stands for
engagementRate(stats, tieUp) ==
  IF stats.views > 0
  THEN LET scaled == (stats.likes + stats.comments + stats.shares)
                       * PerCent * Hundredths
           floor == scaled \div stats.views
           rest == scaled % stats.views
       IN IF 2 * rest > stats.views THEN floor + 1
          ELSE IF 2 * rest < stats.views THEN floor
          ELSE IF tieUp THEN floor + 1 ELSE floor
  ELSE NULL

\* updateCurrentStats builds the properties of the page from the counts
updateRate ==
  /\ call.fn = "stats"
  /\ \E tieUp \in BOOLEAN :
       call' = [fn |-> "updateCurrentStats",
                stats |-> call.stats,
                properties |-> [viewsCurrent |-> call.stats.views,
                                engagementRate |-> engagementRate(call.stats, tieUp)]]
  /\ UNCHANGED <<restVars, sync>>

InitRate ==
  /\ RestIdle
  /\ sync = NoSync
  /\ \E stats \in StatCounts : call = [fn |-> "stats", stats |-> stats]

NextRate == updateRate

SpecRate == InitRate /\ [][NextRate]_vars

\* C19: with views > 0 the engagement rate written is a number, the hundredth
\* of a percent nearest to (likes + comments + shares) / views x 100 (5.75 for
\* 10000 views, 500 likes, 50 comments and 25 shares); with views = 0 no
\* engagement rate is written.
C19_EngagementRate ==
  call.fn = "updateCurrentStats" =>
    LET stats == call.stats
        sum == stats.likes + stats.comments + stats.shares
        rate == call.properties.engagementRate
        off == rate * stats.views - sum * 10000
    IN /\ stats.views = 0 => rate = NULL
       /\ stats.views > 0 =>
            /\ rate \in Nat
            /\ 2 * off <= stats.views
            /\ 2 * off >= 0 - stats.views
       /\ stats = [views |-> 10000, likes |-> 500, comments |-> 50, shares |-> 25]
            => rate = 575

\* the claim's example has been written
C19_Witness ==
  /\ call.fn = "updateCurrentStats"
  /\ call.stats = [views |-> 10000, likes |-> 500, comments |-> 50, shares |-> 25]
  /\ call.properties.engagementRate = 575

(* ------------------ parseAnalysisResponse: the sections --------------- *)

\* the most lines the content of one section has
MaxContentLines == 2

\* the end of a line, as one token of the text
Newline == "\n"

\* three of the labels of a reply, in the documented order
SectionSeq == <<"AI_REVIEW:", "HOOK_1:", "DESCRIPTION:">>

\* the tokens that are capitals, digits and underscores followed by a colon,
\* whatever their case: the labels, and words of the content
ColonTokens == {"AI_REVIEW:", "HOOK_1:", "DESCRIPTION:", "Tip:", "POV:"}

\* the lines a section's content is made of
ContentLines == {<<"word">>, <<"Tip:", "word">>, <<"POV:", "word">>}

Contents == UNION {[1..n -> ContentLines] : n \in 1..MaxContentLines}

\* the lines of a content, with a line end between them
RECURSIVE JoinLines(_)
JoinLines(lines) ==
  IF lines = <<>> THEN <<>>
  ELSE IF Len(lines) = 1 THEN lines[1]
  ELSE lines[1] \o <<Newline>> \o JoinLines(Tail(lines))

\* the reply: each label, its content after it, and a line end before the next
RECURSIVE ReplyFrom(_, _)
ReplyFrom(contents, i) ==
  IF i > Len(SectionSeq) THEN <<>>
  ELSE <<SectionSeq[i]>> \o JoinLines(contents[i])
         \o (IF i < Len(SectionSeq) THEN <<Newline>> ELSE <<>>)
         \o ReplyFrom(contents, i + 1)

\* String.prototype.trim, on tokens: the line ends at both ends go
RECURSIVE trim(_)
trim(text) ==
  IF text = <<>> THEN <<>>
  ELSE IF Head(text) = Newline THEN trim(Tail(text))
  ELSE IF text[Len(text)] = Newline THEN trim(SubSeq(text, 1, Len(text) - 1))
  ELSE text

\* extractSection: the regular expression
\*   sectionName:\s*\n?([\s\S]*?)(?=\n[A-Z_0-9]+:|$)   with flag i
\* finds the first occurrence of the label anywhere in the text, skips the
\* white space after it, and captures up to the first line end that is
\* followed by capitals, digits or underscores and a colon, or to the end
extractSection(text, sectionName) ==
  LET found == {p \in 1..Len(text) : text[p] = sectionName}
  IN IF found = {} THEN <<>>
     ELSE LET p == FirstOf(found)
              after == {q \in (p + 1)..(Len(text) + 1) :
                          \A r \in (p + 1)..(q - 1) : text[r] = Newline}
              start == CHOOSE q \in after : \A r \in after : r <= q
              stops == {e \in start..(Len(text) + 1) :
                          \/ e = Len(text) + 1
                          \/ /\ text[e] = Newline
                             /\ e < Len(text)
                             /\ text[e + 1] \in ColonTokens}
              stop == FirstOf(stops)
          IN trim(SubSeq(text, start, stop - 1))

\* cleanHookText: a leading HOOK_n: goes, then a leading hook-type prefix
\* ending in - or : (here POV:), then the text is trimmed
HookLabels == {"HOOK_1:"}

HookPrefixes == {"POV:"}

cleanHookText(hookText) ==
  LET unlabelled == IF hookText # <<>> /\ Head(hookText) \in HookLabels
                    THEN trim(Tail(hookText)) ELSE hookText
      cleaned == IF unlabelled # <<>> /\ Head(unlabelled) \in HookPrefixes
                 THEN trim(Tail(unlabelled)) ELSE unlabelled
  IN trim(cleaned)

\* parseAnalysisResponse: the text fields of the analysis
extractSections(text) ==
  [aiReview |-> extractSection(text, "AI_REVIEW:"),
   hook1 |-> cleanHookText(extractSection(text, "HOOK_1:")),
   description |-> extractSection(text, "DESCRIPTION:")]

\* parseAnalysisResponse is applied to the reply
parseSections ==
  /\ call.fn = "reply"
  /\ call' = [fn |-> "parseAnalysisResponse",
              contents |-> call.contents,
              analysis |-> extractSections(ReplyFrom(call.contents, 1))]
  /\ UNCHANGED <<restVars, sync>>

InitSections ==
  /\ RestIdle
  /\ sync = NoSync
  /\ \E contents \in [1..Len(SectionSeq) -> Contents] :
       call = [fn |-> "reply", contents |-> contents]

NextSections == parseSections

SpecSections == InitSections /\ [][NextSections]_vars

\* C20: from a reply with all its labels in order, parseAnalysisResponse
\* gives each field the content of its section exactly, also when a line of a
\* content starts with a word and a colon or a hook begins with POV:.
C20_FieldsRecovered ==
  call.fn = "parseAnalysisResponse" =>
    /\ call.analysis.aiReview = JoinLines(call.contents[1])
    /\ call.analysis.hook1 = JoinLines(call.contents[2])
    /\ call.analysis.description = JoinLines(call.contents[3])

(* ----------------------- analyzeIdea: the result ---------------------- *)

\* the labels of a reply that parseAnalysisResponse reads, as modelled here
AnalysisFields ==
  {"viralityScore", "aiReview", "hook1", "bestFormat", "additionalFormats"}

\* the replies of the model: the labels found in the reply, and what
\* follows each label (read only when the label is found)
Replies ==
  [labels : SUBSET AnalysisFields,
   viralityScore : {<<"8", "5">>, <<"a">>},
   aiReview : {<<"word">>},
   hook1 : {<<"word">>},
   bestFormat : {"tiktok", "reel", "podcast"},
   additionalFormats : {<<"none">>, <<"reel", "blog">>, <<"tiktok">>}]

\* the reply has no such label
Missing(reply, field) == field \notin reply.labels

\* anthropic.messages.create throws, or resolves with an empty content
\* array, or resolves with a text block
ModelResponses ==
  {[outcome |-> "throws"], [outcome |-> "empty"]}
    \cup {[outcome |-> "text", reply |-> reply] : reply \in Replies}

\* normalizeFormat: the name in formatMap, or the format as it is
normalizeFormat(format) ==
  CASE format = "tiktok" -> "TikTok"
    [] format = "reel" -> "Instagram Reel"
    [] format = "blog" -> "Blog Post"
    [] OTHER -> format

\* a mutation of the parser: a field is set only when its label is found
parseFieldsFound(reply) ==
  [viralityScore |-> IF Missing(reply, "viralityScore") THEN NULL
                     ELSE parseAnalysisResponse(matchScore(reply.viralityScore)).viralityScore,
   aiReview |-> IF Missing(reply, "aiReview") THEN <<>> ELSE reply.aiReview,
   hook1 |-> IF Missing(reply, "hook1") THEN <<>> ELSE reply.hook1,
   bestFormat |-> IF Missing(reply, "bestFormat") THEN NONE
                  ELSE normalizeFormat(reply.bestFormat),
   additionalFormats |-> <<>>]

\* parseAnalysisResponse, all the fields: the analysis object starts from its
\* defaults and every label found overwrites its field
parseFields(reply) ==
  LET bestFormat == IF Missing(reply, "bestFormat") THEN "TikTok"
                    ELSE normalizeFormat(reply.bestFormat)
      Other(format) == format # bestFormat
      listed == IF Missing(reply, "additionalFormats")
                   \/ reply.additionalFormats = <<"none">>
                THEN <<>>
                ELSE [i \in 1..Len(reply.additionalFormats) |->
                        normalizeFormat(reply.additionalFormats[i])]
  IN [viralityScore |-> IF Missing(reply, "viralityScore") THEN DefaultScore
                        ELSE parseAnalysisResponse(matchScore(reply.viralityScore)).viralityScore,
      aiReview |-> IF Missing(reply, "aiReview") THEN <<>> ELSE reply.aiReview,
      hook1 |-> IF Missing(reply, "hook1") THEN <<>> ELSE reply.hook1,
      bestFormat |-> bestFormat,
      additionalFormats |-> SelectSeq(listed, Other)]

\* analyzeIdea: response.content[0].text of a resolved call is parsed; a
\* throw of the call, or of reading the text of an absent first block, goes to
\* the catch, which returns null
analyzeIdea(response) ==
  IF response.outcome = "text"
  THEN [returned |-> "object", analysis |-> parseFields(response.reply)]
  ELSE [returned |-> "null"]

analyzeIdeaCall ==
  /\ call.fn = "response"
  /\ call' = [fn |-> "analyzeIdea",
              response |-> call.response,
              result |-> analyzeIdea(call.response)]
  /\ UNCHANGED <<restVars, sync>>

InitAnalyze ==
  /\ RestIdle
  /\ sync = NoSync
  /\ \E response \in ModelResponses : call = [fn |-> "response", response |-> response]

NextAnalyze == analyzeIdeaCall

SpecAnalyze == InitAnalyze /\ [][NextAnalyze]_vars

\* every field of the analysis is present and a field whose label is missing
\* has its default
FullyPopulated(reply, analysis) ==
  /\ DOMAIN analysis = AnalysisFields
  /\ analysis.viralityScore \in MinScore..MaxScore
  /\ Missing(reply, "viralityScore") => analysis.viralityScore = DefaultScore
  /\ Missing(reply, "aiReview") => analysis.aiReview = <<>>
  /\ Missing(reply, "hook1") => analysis.hook1 = <<>>
  /\ Missing(reply, "bestFormat") => analysis.bestFormat = "TikTok"
  /\ analysis.bestFormat # NONE
  /\ Missing(reply, "additionalFormats") => analysis.additionalFormats = <<>>

\* C21 (as stated): when the model call succeeds analyzeIdea returns an object
\* with every field present and the defaults for the missing labels, and it
\* returns null only when the model call fails.
C21_NullOnlyOnFailedCall ==
  call.fn = "analyzeIdea" =>
    /\ call.response.outcome # "throws" =>
         /\ call.result.returned = "object"
         /\ FullyPopulated(call.response.reply, call.result.analysis)
    /\ call.result.returned = "null" => call.response.outcome = "throws"

\* C21 (amended): analyzeIdea returns either null or an object with every
\* field present and the defaults for the missing labels; it returns the
\* object exactly when the call resolved with a text block, and null when the
\* call threw or resolved without a first content block.
C21_ObjectOrNull ==
  call.fn = "analyzeIdea" =>
    /\ call.result.returned \in {"object", "null"}
    /\ call.result.returned = "object" <=> call.response.outcome = "text"
    /\ call.result.returned = "object" =>
         FullyPopulated(call.response.reply, call.result.analysis)

\* a reply without any label has been parsed into the defaults
C21_Witness ==
  /\ call.fn = "analyzeIdea"
  /\ call.response.outcome = "text"
  /\ call.response.reply.labels = {}
  /\ call.result.analysis =
       [viralityScore |-> DefaultScore, aiReview |-> <<>>, hook1 |-> <<>>,
        bestFormat |-> "TikTok", additionalFormats |-> <<>>]

(* ------------------ getValidAccessToken: the expiries ----------------- *)

\* 5 * 60 * 1000 milliseconds, in minutes
BufferMinutes == 5

\* the time of the call and the expiries stored in the credentials, in minutes
CallTime == 10

AccessExpiries == {9, 10, 14, 15, 16, 20}

RefreshExpiries == {9, 10, 11, 30}

\* a mutation of the comparison: the safety buffer is left out
TokenUnexpired(time, accessExpiry) == time < accessExpiry

\* now < accessExpiry - 5 * 60 * 1000
TokenStillValid(time, accessExpiry) == time < accessExpiry - BufferMinutes

\* now >= refreshExpiry
RefreshExpired(time, refreshExpiry) == time >= refreshExpiry

\* what the two comparisons of getValidAccessToken make of the credentials
credentialsAt(time, stored) ==
  [accessValid |-> TokenStillValid(time, stored.accessTokenExpiry),
   refreshValid |-> ~RefreshExpired(time, stored.refreshTokenExpiry)]

\* getValidAccessToken is called with the credentials stored in Sanity
getValidAccessTokenCall ==
  /\ call.fn = "credentials"
  /\ \E readOk \in BOOLEAN, refreshOk \in BOOLEAN, fresh \in BOOLEAN :
       /\ (~readOk \/ ~refreshOk) => ~fresh
       /\ call' = [fn |-> "getValidAccessToken",
                   stored |-> call.stored,
                   forceRefresh |-> call.forceRefresh,
                   readOk |-> readOk,
                   result |-> getValidAccessToken(
                                credentialsAt(CallTime, call.stored),
                                call.forceRefresh, readOk, refreshOk, fresh)]
  /\ UNCHANGED <<restVars, sync>>

InitToken ==
  /\ RestIdle
  /\ sync = NoSync
  /\ \E accessExpiry \in AccessExpiries, refreshExpiry \in RefreshExpiries,
        forceRefresh \in BOOLEAN :
       call = [fn |-> "credentials",
               stored |-> [accessTokenExpiry |-> accessExpiry,
                           refreshTokenExpiry |-> refreshExpiry],
               forceRefresh |-> forceRefresh]

NextToken == getValidAccessTokenCall

SpecToken == InitToken /\ [][NextToken]_vars

\* C22: with the credentials read, getValidAccessToken returns the stored
\* token without a refresh exactly when no refresh is forced and the time is
\* more than five minutes before the access expiry; it refreshes only when
\* the refresh token has not expired; and when the stored token is not
\* returned and the refresh token has expired it returns null without a
\* refresh.
C22_StoredTokenOrRefresh ==
  (call.fn = "getValidAccessToken" /\ call.readOk) =>
    LET early == CallTime + 5 < call.stored.accessTokenExpiry
        expired == CallTime >= call.stored.refreshTokenExpiry
        result == call.result
    IN /\ (result.token /\ result.refreshed = 0) <=> (~call.forceRefresh /\ early)
       /\ result.refreshed = 1 => ~expired
       /\ (~(~call.forceRefresh /\ early) /\ expired) =>
            (~result.token /\ result.refreshed = 0)
       /\ (~(~call.forceRefresh /\ early) /\ ~expired) => result.refreshed = 1

\* exactly five minutes before the expiry the stored token is not returned:
\* a refresh is made, and it gives a token
C22_Witness ==
  /\ call.fn = "getValidAccessToken"
  /\ call.readOk
  /\ ~call.forceRefresh
  /\ call.stored.accessTokenExpiry = CallTime + 5
  /\ call.result.refreshed = 1
  /\ call.result.token

(* ------------- a tracked video linked to the idea it came from -------- *)

\* the age of the video, in days, when the cycle starts
LinkedDays == 40

\* the record of a video published at time 0: the sync has refreshed it, D1
\* and D7 were recorded on their days, D1 is analyzed, and the user has linked
\* the idea it was made from and may have ticked Create Follow-up
LinkedPage(createFollowUp) ==
  [EmptyPage(1, "YouTube", 1, 0) EXCEPT
     !.status = "D7 Complete",
     !.viewsCurrent = ViewsAt(7 * HoursPerDay),
     !.lastSynced = 7 * HoursPerDay,
     !.recorded = [n \in Milestones |->
                     IF n <= 7 THEN n * HoursPerDay ELSE NULL],
     !.views = [n \in Milestones |-> IF n <= 7 THEN ViewsAt(n * HoursPerDay) ELSE NULL],
     !.analysis = [n \in Milestones |-> IF n = 1 THEN "text" ELSE ""],
     !.createFollowUp = createFollowUp,
     !.linkedIdeaId = 1]

InitLinked ==
  /\ now = LinkedDays * HoursPerDay
  /\ published = [v \in NativeIds |-> 0]
  /\ \E createFollowUp \in BOOLEAN : videos = <<LinkedPage(createFollowUp)>>
  /\ apc = "idle"
  /\ trackedVideos = <<>>
  /\ newVideos = <<>>
  /\ allStats = <<>>
  /\ idx = 1
  /\ tier = 1
  /\ attempted = [p \in PageIds |-> {}]
  /\ saved = [p \in PageIds |-> {}]
  /\ statWrites = [p \in PageIds |-> [n \in Milestones |-> 0]]
  /\ analysisRuns = [p \in PageIds |-> [n \in Milestones |-> 0]]
  /\ faults = 0
  /\ userArchived = {}
  /\ ideas = <<PostedIdea>>
  /\ IdeasIdle
  /\ GuardIdle
  /\ ExtraIdle

\* runAnalyticsCycle, again and again; the video is tracked, so the sync has
\* nothing to create
NextLinked ==
  \/ runAnalytics
  \/ syncYouTubeStart
  \/ syncYouTubeStats
  \/ syncYouTubeUpdate
  \/ syncYouTubeEnd
  \/ checkMilestonesStart
  \/ checkMilestonesVideo
  \/ checkMilestonesEnd
  \/ runMilestoneAnalysisStart
  \/ runMilestoneAnalysisStep
  \/ runMilestoneAnalysisEnd

SpecLinked == InitLinked /\ [][NextLinked]_vars

\* C23: the Performance Score of a tracked video and the Actual Performance of
\* the idea linked to it, once written from a D30 analysis, are integers from
\* 1 to 100.
C23_ScoresInRange ==
  /\ \A p \in 1..Len(videos) :
       videos[p].performanceScore # NULL =>
         videos[p].performanceScore \in MinScore..MaxScore
  /\ \A i \in 1..Len(ideas) :
       ideas[i].actualPerformance # NULL =>
         ideas[i].actualPerformance \in MinScore..MaxScore

(* ------------------- runAnalyticsCycle: the three steps --------------- *)

\* the steps of runAnalyticsCycle, in the order of its try blocks
StepSeq == <<"sync", "milestones", "analysis">>

Steps == {StepSeq[i] : i \in 1..Len(StepSeq)}

\* a mutation of the cycle: a step that throws ends the cycle
CycleEnds(step) == "done"

\* the statement after the try/catch of a step
StepAfter(step) ==
  IF step = StepSeq[Len(StepSeq)] THEN "done"
  ELSE StepSeq[(CHOOSE i \in 1..Len(StepSeq) : StepSeq[i] = step) + 1]

\* runAnalyticsCycle is called: results = { sync: null, milestones: null,
\* analysis: null, errors: [] }
runAnalyticsCycle ==
  /\ call.fn \in {NONE, "returned"}
  /\ call' = [fn |-> "runAnalyticsCycle",
              step |-> StepSeq[1],
              awaiting |-> FALSE,
              results |-> [s \in Steps |-> NULL],
              errors |-> <<>>,
              log |-> <<>>]
  /\ UNCHANGED <<restVars, sync>>

\* the step of the next try block is called and awaited
stepCalled ==
  /\ call.fn = "runAnalyticsCycle"
  /\ call.step \in Steps
  /\ ~call.awaiting
  /\ call' = [call EXCEPT !.awaiting = TRUE,
                          !.log = Append(@, [step |-> call.step, event |-> "called"])]
  /\ UNCHANGED <<restVars, sync>>

\* the awaited step returns its counts, which go into results
stepReturns ==
  /\ call.fn = "runAnalyticsCycle"
  /\ call.step \in Steps
  /\ call.awaiting
  /\ \E count \in 0..MaxCount :
       call' = [call EXCEPT !.awaiting = FALSE,
                            !.results[call.step] = count,
                            !.log = Append(@, [step |-> call.step, event |-> "returned"]),
                            !.step = StepAfter(call.step)]
  /\ UNCHANGED <<restVars, sync>>

\* the awaited step throws: the catch pushes { step, error } onto
\* results.errors
stepThrows ==
  /\ call.fn = "runAnalyticsCycle"
  /\ call.step \in Steps
  /\ call.awaiting
  /\ call' = [call EXCEPT !.awaiting = FALSE,
                          !.errors = Append(@, call.step),
                          !.log = Append(@, [step |-> call.step, event |-> "threw"]),
                          !.step = StepAfter(call.step)]
  /\ UNCHANGED <<restVars, sync>>

\* return results
cycleReturns ==
  /\ call.fn = "runAnalyticsCycle"
  /\ call.step = "done"
  /\ call' = [fn |-> "returned", results |-> call.results,
              errors |-> Len(call.errors)]
  /\ UNCHANGED <<restVars, sync>>

InitCycle ==
  /\ RestIdle
  /\ sync = NoSync
  /\ call = NoCall

NextCycle ==
  \/ runAnalyticsCycle
  \/ stepCalled
  \/ stepReturns
  \/ stepThrows
  \/ cycleReturns

SpecCycle == InitCycle /\ [][NextCycle]_vars

\* the i-th event of a cycle in which every step runs in order, one at a time
InOrder(log) ==
  \A i \in 1..Len(log) :
    /\ i <= 2 * Len(StepSeq)
    /\ log[i].step = StepSeq[(i + 1) \div 2]
    /\ (i % 2 = 1) <=> (log[i].event = "called")

\* the steps that threw, in order
Thrown(log) ==
  LET Threw(entry) == entry.event = "threw"
      thrown == SelectSeq(log, Threw)
  IN [i \in 1..Len(thrown) |-> thrown[i].step]

\* C24: runAnalyticsCycle calls sync, milestones and analysis in that order,
\* each after the one before has returned or thrown; a step that throws is in
\* results.errors and leaves its result null, and when the cycle returns all
\* three steps have been called whichever of them threw.
C24_StepsInOrder ==
  call.fn = "runAnalyticsCycle" =>
    /\ InOrder(call.log)
    /\ call.errors = Thrown(call.log)
    /\ \A i \in 1..Len(call.errors) : call.results[call.errors[i]] = NULL
    /\ call.step = "done" => Len(call.log) = 2 * Len(StepSeq)

\* the sync threw, the milestones were recorded and the analysis threw
C24_Witness ==
  /\ call.fn = "runAnalyticsCycle"
  /\ call.step = "done"
  /\ call.errors = <<"sync", "analysis">>
  /\ call.results["milestones"] # NULL

(* ------------------- what a milestone is frozen from ------------------ *)

\* C25: every milestone recorded for a video was frozen from current metrics
\* that a sync had written: its frozen views are a number, not the empty
\* value of a record that was never synced.
C25_FrozenFromSynced ==
  \A p \in 1..Len(videos) :
    \A n \in Milestones :
      videos[p].recorded[n] # NULL => videos[p].views[n] # NULL

(* ----------------------- one record per video ------------------------- *)

\* C26: no two records of the tracked-video store have the same platform and
\* native video id, whatever store reads fail.
C26_NoDuplicateRecord ==
  \A p \in 1..Len(videos) :
    \A q \in 1..Len(videos) :
      (videos[p].platform = videos[q].platform
         /\ videos[p].videoId = videos[q].videoId) => p = q

(* --------------------------- follow-up ideas -------------------------- *)

\* the follow-up ideas in the Ideas database
FollowUps == {i \in 1..Len(ideas) : ideas[i].title = <<"follow", "up">>}

\* C27: over any number of analysis passes at most one follow-up idea is
\* created for a tracked video.
C27_OneFollowUp ==
  Len(videos) = 1 => Cardinality(FollowUps) <= 1

(* ------------------- the run flags: every pass ends ------------------- *)

\* the steps of a started idea-processing pass
IdeasPassSteps ==
  \/ processNewIdeasNone
  \/ processNewIdeasContext
  \/ processIdea
  \/ processHelpRequestStart
  \/ processHelpRequestCreate
  \/ processHelpRequestArchive
  \/ processNewIdeasEnd

\* the steps of a started analytics pass
AnalyticsPassSteps ==
  \/ syncYouTubeStart
  \/ syncYouTubeCreate
  \/ syncYouTubeStats
  \/ syncYouTubeUpdate
  \/ syncYouTubeEnd
  \/ checkMilestonesStart
  \/ checkMilestonesVideo
  \/ checkMilestonesEnd
  \/ runMilestoneAnalysisStart
  \/ runMilestoneAnalysisStep
  \/ runMilestoneAnalysisEnd

\* both workflows of one process: the triggers start passes of either at any
\* time, on a store of pending ideas and a catalogue that grows
InitRelease ==
  /\ now = 0
  /\ AnalyticsIdle
  /\ faults = 0
  /\ IdeasIdle
  /\ GuardIdle
  /\ ExtraIdle
  /\ \E idea \in PendingIdeas : ideas = <<idea>>

NextRelease ==
  \/ processNewIdeasStart
  \/ IdeasPassSteps
  \/ runAnalytics
  \/ AnalyticsPassSteps
  \/ UserSetsReanalysis
  \/ Publish

\* every awaited call of a started pass returns
SpecRelease ==
  /\ InitRelease
  /\ [][NextRelease]_vars
  /\ WF_vars(IdeasPassSteps)
  /\ WF_vars(AnalyticsPassSteps)

\* C28: a run flag is set exactly while a pass of its workflow is between its
\* start and its end, and a flag that is set is cleared again, however the
\* pass ends; so a later trigger finds the flag clear
C28_FlagReleased ==
  /\ [](isRunning <=> ipc # "idle")
  /\ [](analyticsRunning <=> apc # "idle")
  /\ (isRunning ~> ~isRunning)
  /\ (analyticsRunning ~> ~analyticsRunning)

\* an idea-processing pass that ended on a failed read of the store and an
\* analytics pass that ended after it created a record: both flags are clear
C28_Witness ==
  /\ ipc = "idle"
  /\ queryOk = FALSE
  /\ ~isRunning
  /\ apc = "idle"
  /\ videos # <<>>
  /\ ~analyticsRunning

(* --------------------- archived by the user: the status ---------------- *)

\* C29: a record the user archived keeps the status Archived: no write of a
\* pass, in flight when the user archived it or later, gives it another status
C29_ArchivedKept ==
  \A p \in userArchived : videos[p].status = "Archived"

(* ------------------- the D30 feedback write: its frame ----------------- *)

\* C30: the feedback write changes only the observed performance of the
\* linked idea: its score, flag, status, posted URL and texts stay as the
\* user and the analysis left them
C30_OnlyPerformanceWritten ==
  ideas[1] = [PostedIdea EXCEPT !.actualPerformance = ideas[1].actualPerformance]

====
